---- MODULE Spec2Model ----
(***************************************************************************)
(* ExifAnalyzer: the metadata model (core/metadata.py), the file safety    *)
(* manager (core/file_safety.py), the metadata engine (core/engine.py)     *)
(* and the write/strip paths of the five format adapters (adapters/*.py).  *)
(*                                                                         *)
(* The specifications share the variables:                                 *)
(*   SpecMeta    an ImageMetadata object under set/remove/strip/query      *)
(*   SpecSafe    one caller running safe_file_operation scopes on a file   *)
(*   SpecEngine  MetadataEngine.write_metadata / strip_metadata through    *)
(*               the adapter registered for the file's format              *)
(*   SpecAdapter the engine's registry and get_adapter                     *)
(*   SpecBatch   batch_process and BatchProcessor.process_files            *)
(*   SpecBackup  create_backup and cleanup_backups                         *)
(*   SpecPng     export, strip, restore and GPS strip of a PNG file's text *)
(*               chunks                                                    *)
(*   SpecShare   to_dict and from_dict with the block dictionaries as      *)
(*               shared objects                                            *)
(*   SpecConfig  ConfigManager.set and reset_to_defaults                   *)
(*   SpecCheck   verify_pixel_integrity and verify_jpeg_integrity          *)
(*   SpecThreads two threads in safe_file_operation on two files of one    *)
(*               directory                                                 *)
(*   SpecRead    PNGAdapter.read_metadata on arbitrary bytes (SpecReadFair *)
(*               with the reader scheduled)                                *)
(***************************************************************************)
EXTENDS Integers, Sequences, FiniteSets, TLC

(***************************************************************************)
(* Bounds of the model.                                                    *)
(***************************************************************************)
\* the clock int(time.time()) runs over 0..MaxTime
MaxTime == 1
\* number of scopes (SpecSafe) or engine calls (SpecEngine) in one behaviour
MaxOps == 2
\* number of keys an ImageMetadata object holds over its four blocks
MaxKeys == 2

(***************************************************************************)
(* The file system: one directory.  A path is <<kind, name, timestamp>>:   *)
(*   <<"file", n, 0>>    the image n                                       *)
(*   <<"backup", n, t>>  n's backup  stem.backup.<t>.suffix                *)
(*   <<"temp", n, t>>    .temp/temp_<t>_<n>                                *)
(*   <<"custom", n, 0>>  a backup path of n's that a caller supplies       *)
(*   <<"nested", n, 0>>  the same, in a directory that may not exist yet   *)
(* A file's content is a record: an image (decoded pixel data px, md = 1   *)
(* when it carries metadata), junk (a truncated or undecodable file), or   *)
(* absent.  An image is one 8-bit sample; the encoders and the integrity   *)
(* checks act on it as the code acts on every sample.                      *)
(***************************************************************************)
Names == {"f", "g"}
F == <<"file", "f", 0>>
G == <<"file", "g", 0>>
NoPath == <<"none", "", 0>>
Times == 0..MaxTime
Paths ==
    ({"file", "custom", "nested"} \X Names \X {0})
        \cup ({"backup", "temp"} \X Names \X Times)
BackupPaths == {p \in Paths : p[1] = "backup"}
TempPaths == {p \in Paths : p[1] = "temp"}

PixelVals == {0, 1, 2, 16}
Img(px, md) == [kind |-> "img", px |-> px, md |-> md]
Junk == [kind |-> "junk", px |-> 0, md |-> 0]
Absent == [kind |-> "absent", px |-> 0, md |-> 0]
Images == {Img(px, md) : px \in PixelVals, md \in {0, 1}}
FileContents == Images \cup {Junk}
\* what the body of a caller's scope writes to its temp file
CallerContents == {Img(1, 1), Img(2, 0), Junk}

Exists(fsx, p) == p \in DOMAIN fsx /\ fsx[p] # Absent

VARIABLES
    fs,        \* Paths -> content
    tempDir,   \* whether the directory .temp exists
    tempOther, \* whether .temp holds an entry that is no temp file of the model
    now,       \* the clock
    ops,       \* scopes / engine calls started so far
    scope,     \* the frame of the running safe_file_operation
    eng,       \* the frame of the running engine call
    fmt,       \* the format of the images, which selects the adapter
    meta,      \* the ImageMetadata object: block name -> (key -> value)
    call,      \* the last call on the ImageMetadata object and what it returned
    adapters,  \* MetadataEngine.adapters: extension -> adapter instance
    lookup,    \* the last call of get_adapter and what it returned
    batch,     \* the frame of the running batch and its result map
    mtime,     \* st_mtime of the images and of their timestamped backups
    nestedDir, \* whether the directory of the "nested" paths exists
    bcall,     \* the last call of create_backup by a caller and how it ended
    clean,     \* the frame of the running cleanup_backups
    png,       \* a PNG file's text chunks, and the export/strip/restore run on it
    fields,    \* the fields of the ImageMetadata object that are no blocks
    cfg,       \* ConfigManager: the dictionaries of the class and of the instance
    check,     \* the last integrity check a caller asked for and its result
    share,     \* an ImageMetadata object, its to_dict() and from_dict() of it
    rd,        \* PNGAdapter.read_metadata running on the bytes of a file
    thr        \* the frames of two threads in safe_file_operation

\* the variables of the engine's registry, of a batch run, of the backups
registryVars == <<adapters, lookup>>
batchVars == <<batch>>
backupVars == <<mtime, nestedDir, bcall, clean>>
pngVars == <<png>>
sideVars == <<registryVars, batchVars, backupVars, pngVars>>
\* the variables of the object's fields, the configuration, the integrity
\* checks, the shared dictionaries, the PNG reader and the two threads
moreVars == <<fields, cfg, check, share, rd, thr>>
extVars == <<sideVars, moreVars>>

vars == <<fs, tempDir, tempOther, now, ops, scope, eng, fmt, meta, call, extVars>>
fsVars == <<fs, tempDir, tempOther, now, ops, scope, eng, fmt>>
metaVars == <<meta, call>>

(***************************************************************************)
(* core/metadata.py.  A key is a sequence of characters, so that lower()   *)
(* and the substring test "pattern in key_lower" are computed.             *)
(***************************************************************************)
UpperChars == <<"A", "B", "C", "D", "E", "F", "G", "H", "I", "J", "K", "L", "M",
                "N", "O", "P", "Q", "R", "S", "T", "U", "V", "W", "X", "Y", "Z">>
LowerChars == <<"a", "b", "c", "d", "e", "f", "g", "h", "i", "j", "k", "l", "m",
                "n", "o", "p", "q", "r", "s", "t", "u", "v", "w", "x", "y", "z">>

\* str.lower() on one character
LowerChar(c) ==
    IF \E i \in 1..Len(UpperChars) : UpperChars[i] = c
    THEN LowerChars[CHOOSE i \in 1..Len(UpperChars) : UpperChars[i] = c]
    ELSE c

\* str.lower()
Lower(key) == [i \in 1..Len(key) |-> LowerChar(key[i])]

\* the Python test "pattern in text" on strings
Contains(text, pattern) ==
    \E i \in 0..(Len(text) - Len(pattern)) :
        SubSeq(text, i + 1, i + Len(pattern)) = pattern

\* any(pattern in key.lower() for pattern in patterns)
MatchesAny(key, patterns) == \E p \in patterns : Contains(Lower(key), p)

\* gps_patterns of has_gps_data
HasGpsPatterns ==
    {<<"g", "p", "s">>,
     <<"l", "a", "t", "i", "t", "u", "d", "e">>,
     <<"l", "o", "n", "g", "i", "t", "u", "d", "e">>,
     <<"a", "l", "t", "i", "t", "u", "d", "e">>,
     <<"l", "o", "c", "a", "t", "i", "o", "n">>,
     <<"g", "e", "o", "t", "a", "g">>,
     <<"c", "o", "o", "r", "d", "i", "n", "a", "t", "e">>,
     <<"p", "o", "s", "i", "t", "i", "o", "n">>}

\* gps_patterns of strip_gps_data
StripGpsPatterns ==
    {<<"g", "p", "s">>,
     <<"l", "o", "c", "a", "t", "i", "o", "n">>,
     <<"g", "e", "o", "t", "a", "g">>,
     <<"c", "o", "o", "r", "d", "i", "n", "a", "t", "e">>}

\* the keys the model's callers use
KeyGPSLatitude == <<"G", "P", "S", "L", "a", "t", "i", "t", "u", "d", "e">>
KeyLatitude == <<"L", "a", "t", "i", "t", "u", "d", "e">>
KeyMake == <<"M", "a", "k", "e">>
KeyGeoTag == <<"G", "e", "o", "T", "a", "g">>
KeyPool == {KeyGPSLatitude, KeyLatitude, KeyMake, KeyGeoTag}

\* the values a key may hold: Python's None, and a string
NoneVal == "None"
Values == {NoneVal, "v"}

BlockNames == <<"exif", "iptc", "xmp", "custom">>
BlockSet == {BlockNames[i] : i \in 1..Len(BlockNames)}
EmptyBlock == [k \in {} |-> NoneVal]
EmptyMeta == [b \in BlockSet |-> EmptyBlock]

\* MetadataBlock.keys
BlockKeys(d) == DOMAIN d

\* MetadataBlock.set: self.data[key] = value
BlockSetKey(d, k, v) == [x \in DOMAIN d \cup {k} |-> IF x = k THEN v ELSE d[x]]

\* a remove that leaves a key whose value is None in the block
BlockRemoveIfValue(d, k) ==
    [data |-> [x \in {y \in DOMAIN d : y # k \/ d[y] = NoneVal} |-> d[x]],
     ret |-> (k \in DOMAIN d /\ d[k] # NoneVal)]

\* MetadataBlock.remove: self.data.pop(key, None) is not None
BlockRemove(d, k) ==
    [data |-> [x \in DOMAIN d \ {k} |-> d[x]],
     ret |-> (k \in DOMAIN d /\ d[k] # NoneVal)]

\* number of keys over the four blocks
KeyCount(m) == Cardinality({<<b, k>> \in BlockSet \X KeyPool : k \in DOMAIN m[b]})

\* ImageMetadata.has_metadata
HasMetadata(m) == \E b \in BlockSet : DOMAIN m[b] # {}

\* ImageMetadata.has_gps_data
HasGpsData(m) ==
    \E b \in BlockSet : \E k \in BlockKeys(m[b]) : MatchesAny(k, HasGpsPatterns)

\* the loop "for key in keys: if block.remove(key): removed_count += 1"
RECURSIVE RemoveKeys(_, _, _)
RemoveKeys(d, keys, count) ==
    IF keys = {}
    THEN [data |-> d, count |-> count]
    ELSE LET k == CHOOSE x \in keys : TRUE
             r == BlockRemove(d, k)
         IN  RemoveKeys(r.data, keys \ {k}, IF r.ret THEN count + 1 ELSE count)

\* a strip that takes every key of the block for a GPS key
AllKeysToRemove(d) == BlockKeys(d)

\* keys_to_remove of strip_gps_data for one block
GpsKeysToRemove(d) == {k \in BlockKeys(d) : MatchesAny(k, StripGpsPatterns)}

\* removed_count summed over the blocks exif, iptc, xmp, custom, in that order
RECURSIVE SumCounts(_, _)
SumCounts(perBlock, i) ==
    IF i = 0 THEN 0 ELSE SumCounts(perBlock, i - 1) + perBlock[BlockNames[i]].count

\* ImageMetadata.strip_gps_data: the object after the call, and the count returned
StripGpsData(m) ==
    LET perBlock == [b \in BlockSet |-> RemoveKeys(m[b], GpsKeysToRemove(m[b]), 0)]
    IN  [meta |-> [b \in BlockSet |-> perBlock[b].data],
         ret |-> SumCounts(perBlock, Len(BlockNames))]

\* ImageMetadata.strip_all_metadata: the object after the call, and the count returned
StripAllMetadata(m) ==
    LET perBlock == [b \in BlockSet |-> RemoveKeys(m[b], BlockKeys(m[b]), 0)]
    IN  [meta |-> [b \in BlockSet |-> perBlock[b].data],
         ret |-> SumCounts(perBlock, Len(BlockNames))]

\* ImageMetadata.to_dict: the entry "metadata" of the dictionary, one entry per
\* block holding the block's data (the other entries describe the file)
ToDict(m) ==
    [metadata |-> [exif |-> m["exif"], iptc |-> m["iptc"],
                   xmp |-> m["xmp"], custom |-> m["custom"]]]

\* dict.get(key, {}) on a dictionary of blocks
GetOrEmpty(d, key) == IF key \in DOMAIN d THEN d[key] ELSE EmptyBlock

\* a from_dict that leaves the blocks of the new object as constructed
FromDictFresh(d) == EmptyMeta

\* ImageMetadata.from_dict: the blocks of the object it builds
FromDict(d) ==
    LET metadata_blocks == IF "metadata" \in DOMAIN d THEN d["metadata"] ELSE EmptyBlock
    IN  [b \in BlockSet |-> GetOrEmpty(metadata_blocks, b)]

\* the fields of ImageMetadata(file_path, format) that are no blocks, the
\* optional ones at their default None
NewFields ==
    [file_path |-> <<"file", "f", 0>>, format |-> "JPEG", file_size |-> NoneVal,
     last_modified |-> NoneVal, pixel_hash |-> NoneVal]

\* prior: what the call before returned if it was strip_all_metadata() as
\* well, and -1 otherwise
NoCall ==
    [op |-> "none", retInt |-> 0, retBool |-> FALSE, before |-> EmptyMeta, prior |-> -1]

\* a caller sets a key of a block (adapters filling the object, callers editing it)
MetaSet(b, k, v) ==
    /\ k \in DOMAIN meta[b] \/ KeyCount(meta) < MaxKeys
    /\ meta' = [meta EXCEPT ![b] = BlockSetKey(meta[b], k, v)]
    /\ call' = [op |-> "set", retInt |-> 0, retBool |-> FALSE, before |-> meta,
                prior |-> -1]
    /\ UNCHANGED <<fsVars, extVars>>

\* a caller removes a key of a block
MetaRemove(b, k) ==
    LET r == BlockRemove(meta[b], k)
    IN  /\ meta' = [meta EXCEPT ![b] = r.data]
        /\ call' = [op |-> "remove", retInt |-> 0, retBool |-> r.ret, before |-> meta,
                    prior |-> -1]
        /\ UNCHANGED <<fsVars, extVars>>

\* a caller asks has_gps_data()
MetaHasGpsData ==
    /\ meta' = meta
    /\ call' = [op |-> "has_gps_data", retInt |-> 0, retBool |-> HasGpsData(meta),
                before |-> meta, prior |-> -1]
    /\ UNCHANGED <<fsVars, extVars>>

\* a caller runs strip_gps_data()
MetaStripGpsData ==
    LET r == StripGpsData(meta)
    IN  /\ meta' = r.meta
        /\ call' = [op |-> "strip_gps_data", retInt |-> r.ret, retBool |-> FALSE,
                    before |-> meta, prior |-> -1]
        /\ UNCHANGED <<fsVars, extVars>>

\* a caller runs strip_all_metadata()
MetaStripAllMetadata ==
    LET r == StripAllMetadata(meta)
    IN  /\ meta' = r.meta
        /\ call' = [op |-> "strip_all_metadata", retInt |-> r.ret, retBool |-> FALSE,
                    before |-> meta,
                    prior |-> IF call.op = "strip_all_metadata" THEN call.retInt
                              ELSE -1]
        /\ UNCHANGED <<fsVars, extVars>>

\* the adapter that builds the object passes file_size and pixel_hash
MetaFileInfo(size, hash) ==
    /\ fields.file_size = NoneVal
    /\ fields' = [fields EXCEPT !.file_size = size, !.pixel_hash = hash]
    /\ UNCHANGED <<fsVars, metaVars, sideVars, cfg, check, share, rd, thr>>

\* a caller rebuilds the object from its dictionary: from_dict(m.to_dict())
MetaFromDictToDict ==
    /\ meta' = FromDict(ToDict(meta))
    /\ call' = [op |-> "from_dict", retInt |-> 0, retBool |-> FALSE,
                before |-> meta, prior |-> -1]
    /\ UNCHANGED <<fsVars, extVars>>

(***************************************************************************)
(* to_dict and from_dict with Python's references.  The data of a block is *)
(* a dictionary object of a heap; an object, and the "metadata" entry of a *)
(* dictionary that to_dict returned, map each block name to the id of a    *)
(* dictionary object.                                                      *)
(***************************************************************************)
\* the dictionaries that the default factories made for the object m
OwnBlocks == [b \in BlockSet |-> <<"m", b>>]
NoDict == [metadata |-> [b \in BlockSet |-> <<"none", b>>]]

\* what the blocks named by refs hold
Held(heap, refs) ==
    [b \in BlockSet |-> IF refs[b] \in DOMAIN heap THEN heap[refs[b]] ELSE EmptyBlock]

NoShare ==
    [heap |-> [id \in {OwnBlocks[b] : b \in BlockSet} |-> EmptyBlock],
     m |-> OwnBlocks, d |-> NoDict, m2 |-> NoDict.metadata, op |-> "none"]

\* the blocks of the object named: m, or m2 once from_dict has built it
BlocksOf(sh, obj) == IF obj = "m" THEN sh.m ELSE sh.m2

\* a caller sets a key of a block of m or of m2
ShareSet(obj, b, k, v) ==
    LET id == BlocksOf(share, obj)[b]
    IN  /\ id \in DOMAIN share.heap
        /\ \/ k \in DOMAIN share.heap[id]
           \/ Cardinality({<<x, y>> \in (DOMAIN share.heap) \X KeyPool :
                              y \in DOMAIN share.heap[x]}) < MaxKeys
        /\ share' = [share EXCEPT !.heap[id] = BlockSetKey(@, k, v), !.op = obj]
        /\ UNCHANGED <<fsVars, metaVars, sideVars, fields, cfg, check, rd, thr>>

\* a caller removes a key of a block of m or of m2
ShareRemove(obj, b, k) ==
    LET id == BlocksOf(share, obj)[b]
    IN  /\ id \in DOMAIN share.heap
        /\ share' = [share EXCEPT !.heap[id] = BlockRemove(@, k).data, !.op = obj]
        /\ UNCHANGED <<fsVars, metaVars, sideVars, fields, cfg, check, rd, thr>>

\* d = m.to_dict()
ShareToDict ==
    /\ share' = [share EXCEPT !.d = ToDict(share.m), !.op = "to_dict"]
    /\ UNCHANGED <<fsVars, metaVars, sideVars, fields, cfg, check, rd, thr>>

\* m2 = ImageMetadata.from_dict(d)
ShareFromDict ==
    /\ share.d # NoDict
    /\ share' = [share EXCEPT !.m2 = FromDict(share.d), !.op = "from_dict"]
    /\ UNCHANGED <<fsVars, metaVars, sideVars, fields, cfg, check, rd, thr>>

NextShare ==
    \/ \E obj \in {"m", "m2"}, b \in BlockSet, k \in KeyPool, v \in Values :
           ShareSet(obj, b, k, v)
    \/ \E obj \in {"m", "m2"}, b \in BlockSet, k \in KeyPool : ShareRemove(obj, b, k)
    \/ ShareToDict
    \/ ShareFromDict

NextMeta ==
    \/ \E b \in BlockSet, k \in KeyPool, v \in Values : MetaSet(b, k, v)
    \/ \E b \in BlockSet, k \in KeyPool : MetaRemove(b, k)
    \/ MetaHasGpsData
    \/ MetaStripGpsData
    \/ MetaStripAllMetadata
    \/ MetaFromDictToDict
    \/ MetaFileInfo("1024", "sha256")

(***************************************************************************)
(* core/file_safety.py.  A copy or a move that fails leaves its            *)
(* destination as it was (the failure is met on opening or renaming).      *)
(***************************************************************************)
\* FileSafetyManager.get_backup_path with backup_dir None: a sibling of the
\* file, named by the clock's second
GetBackupPath(file, t) == <<"backup", file[2], t>>

\* a scope that hands its caller the target itself to work on
TempPathInPlace(file, t) == file

\* temp_dir / f"temp_{int(time.time())}_{file_path.name}"
TempPath(file, t) == <<"temp", file[2], t>>

\* a scope that moves the target to the temp file
MoveToTemp(fsx, file, tp) ==
    IF Exists(fsx, file) THEN [fsx EXCEPT ![tp] = fsx[file], ![file] = Absent] ELSE fsx

\* lines 164-166: "if file_path.exists(): shutil.copy2(file_path, temp_path)"
CopyToTemp(fsx, file, tp) ==
    IF Exists(fsx, file) THEN [fsx EXCEPT ![tp] = fsx[file]] ELSE fsx

\* FileSafetyManager.create_backup(file_path) at time t; fault: shutil.copy2 fails
CreateBackup(fsx, file, t, fault) ==
    IF ~Exists(fsx, file)
    THEN [fs |-> fsx, path |-> NoPath, err |-> "FileError"]
    ELSE IF fault
    THEN [fs |-> fsx, path |-> NoPath, err |-> "BackupError"]
    ELSE [fs |-> [fsx EXCEPT ![GetBackupPath(file, t)] = fsx[file]],
          path |-> GetBackupPath(file, t), err |-> "none"]

\* the files of the directory .temp
TempFiles(fsx) == {p \in TempPaths : Exists(fsx, p)}

\* not any(temp_dir.iterdir())
TempDirEmpty(fsx, other) == TempFiles(fsx) = {} /\ ~other

\* the backups present
BackupFiles(fsx) == {p \in BackupPaths : Exists(fsx, p)}

IdleScope ==
    [pc |-> "idle", owner |-> "none", file_path |-> NoPath, create_backup |-> FALSE,
     backup_path |-> NoPath, temp_path |-> NoPath, exc |-> "none",
     pre |-> Absent, wrote |-> FALSE, left |-> Absent, bodyRaised |-> FALSE]

\* entering "with safe_file_operation(file_path, create_backup)": backup_path and
\* temp_path are None; pre remembers the target's content on entry
EnterScope(owner, file, cb) ==
    [IdleScope EXCEPT !.pc = "backup", !.owner = owner, !.file_path = file,
                      !.create_backup = cb, !.pre = fs[file]]

\* the clock's second passes
Tick ==
    /\ now < MaxTime
    /\ now' = now + 1
    /\ UNCHANGED <<fs, tempDir, tempOther, ops, scope, eng, fmt, meta, call, extVars>>

\* a caller opens a scope on a file of the directory
CallerEnter(file, cb) ==
    /\ scope.pc = "idle"
    /\ eng.pc = "idle"
    /\ ops < MaxOps
    /\ ops' = ops + 1
    /\ scope' = EnterScope("caller", file, cb)
    /\ UNCHANGED <<fs, tempDir, tempOther, now, eng, fmt, meta, call, extVars>>

\* lines 155-157: the backup, if asked for and the file exists
ScopeBackup(fault) ==
    /\ scope.pc = "backup"
    /\ IF scope.create_backup /\ Exists(fs, scope.file_path)
       THEN LET r == CreateBackup(fs, scope.file_path, now, fault)
            IN  /\ fs' = r.fs
                /\ scope' = IF r.err = "none"
                            THEN [scope EXCEPT !.pc = "mktemp", !.backup_path = r.path]
                            ELSE [scope EXCEPT !.pc = "except", !.exc = r.err]
       ELSE /\ fault = FALSE
            /\ fs' = fs
            /\ scope' = [scope EXCEPT !.pc = "mktemp"]
    /\ UNCHANGED <<tempDir, tempOther, now, ops, eng, fmt, meta, call, extVars>>

\* lines 159-169: .temp is made, the target is copied to the temp file if it
\* exists, and the temp path is yielded
ScopeTemp ==
    /\ scope.pc = "mktemp"
    /\ LET tp == TempPath(scope.file_path, now)
       IN  /\ tempDir' = TRUE
           /\ fs' = CopyToTemp(fs, scope.file_path, tp)
           /\ scope' = [scope EXCEPT !.pc = "body", !.temp_path = tp]
    /\ UNCHANGED <<tempOther, now, ops, eng, fmt, meta, call, extVars>>

\* the caller's body writes the temp file
BodyWrite(c) ==
    /\ scope.pc = "body" /\ scope.owner = "caller"
    /\ fs[scope.temp_path] # c
    /\ fs' = [fs EXCEPT ![scope.temp_path] = c]
    /\ scope' = [scope EXCEPT !.wrote = TRUE]
    /\ UNCHANGED <<tempDir, tempOther, now, ops, eng, fmt, meta, call, extVars>>

\* the caller's body deletes the temp file
BodyUnlink ==
    /\ scope.pc = "body" /\ scope.owner = "caller"
    /\ Exists(fs, scope.temp_path)
    /\ fs' = [fs EXCEPT ![scope.temp_path] = Absent]
    /\ scope' = [scope EXCEPT !.wrote = TRUE]
    /\ UNCHANGED <<tempDir, tempOther, now, ops, eng, fmt, meta, call, extVars>>

\* another entry of .temp appears or goes while the body runs
BodyOther ==
    /\ scope.pc = "body" /\ scope.owner = "caller"
    /\ tempOther' = ~tempOther
    /\ UNCHANGED <<fs, tempDir, now, ops, scope, eng, fmt, meta, call, extVars>>

\* the caller's body returns
BodyReturn ==
    /\ scope.pc = "body" /\ scope.owner = "caller"
    /\ scope' = [scope EXCEPT !.pc = "commit", !.left = fs[scope.temp_path]]
    /\ UNCHANGED <<fs, tempDir, tempOther, now, ops, eng, fmt, meta, call, extVars>>

\* the caller's body raises
BodyRaise ==
    /\ scope.pc = "body" /\ scope.owner = "caller"
    /\ scope' = [scope EXCEPT !.pc = "except", !.exc = "ValueError",
                              !.bodyRaised = TRUE, !.left = fs[scope.temp_path]]
    /\ UNCHANGED <<fs, tempDir, tempOther, now, ops, eng, fmt, meta, call, extVars>>

\* lines 171-175: shutil.move(temp_path, file_path) if the temp file exists;
\* fault: the move fails
ScopeCommit(fault) ==
    /\ scope.pc = "commit"
    /\ IF Exists(fs, scope.temp_path)
       THEN IF fault
            THEN /\ fs' = fs
                 /\ scope' = [scope EXCEPT !.pc = "except", !.exc = "OSError"]
            ELSE /\ fs' = [fs EXCEPT ![scope.file_path] = fs[scope.temp_path],
                                     ![scope.temp_path] = Absent]
                 /\ scope' = [scope EXCEPT !.pc = "finally"]
       ELSE /\ fault = FALSE
            /\ fs' = fs
            /\ scope' = [scope EXCEPT !.pc = "finally"]
    /\ UNCHANGED <<tempDir, tempOther, now, ops, eng, fmt, meta, call, extVars>>

\* line 181
ShouldRestore(fsx, sc) ==
    /\ sc.backup_path # NoPath
    /\ Exists(fsx, sc.backup_path)
    /\ Exists(fsx, sc.file_path)

\* lines 177-188: the handler restores from the backup and re-raises; fault:
\* the restoring copy fails, which is logged
ScopeExcept(fault) ==
    /\ scope.pc = "except"
    /\ IF ShouldRestore(fs, scope)
       THEN fs' = IF fault THEN fs
                  ELSE [fs EXCEPT ![scope.file_path] = fs[scope.backup_path]]
       ELSE fault = FALSE /\ fs' = fs
    /\ scope' = [scope EXCEPT !.pc = "finally"]
    /\ UNCHANGED <<tempDir, tempOther, now, ops, eng, fmt, meta, call, extVars>>

\* a finally clause that leaves the temp file
UnlinkTempNever(fsx, sc) == fsx

\* lines 192-196: the temp file is deleted if there is one
UnlinkTemp(fsx, sc) ==
    IF sc.temp_path # NoPath /\ Exists(fsx, sc.temp_path)
    THEN [fsx EXCEPT ![sc.temp_path] = Absent]
    ELSE fsx

\* lines 198-204: .temp is removed if it exists and is empty; whether it
\* exists afterwards
TempDirAfterRmdir(fsx, dir, other) == dir /\ ~TempDirEmpty(fsx, other)

\* lines 190-204: the finally clause
ScopeFinally ==
    /\ scope.pc = "finally"
    /\ fs' = UnlinkTemp(fs, scope)
    /\ tempDir' = TempDirAfterRmdir(fs', tempDir, tempOther)
    /\ scope' = [scope EXCEPT !.pc = "done"]
    /\ UNCHANGED <<tempOther, now, ops, eng, fmt, meta, call, extVars>>

\* the caller has left the scope (or caught what it raised)
CallerExit ==
    /\ scope.pc = "done" /\ scope.owner = "caller"
    /\ scope' = IdleScope
    /\ UNCHANGED <<fs, tempDir, tempOther, now, ops, eng, fmt, meta, call, extVars>>

\* the steps of safe_file_operation itself
ScopeStep ==
    \/ \E fault \in BOOLEAN : ScopeBackup(fault)
    \/ ScopeTemp
    \/ \E fault \in BOOLEAN : ScopeCommit(fault)
    \/ \E fault \in BOOLEAN : ScopeExcept(fault)
    \/ ScopeFinally

NextSafe ==
    \/ Tick
    \/ \E file \in {F, G}, cb \in BOOLEAN : CallerEnter(file, cb)
    \/ ScopeStep
    \/ \E c \in CallerContents : BodyWrite(c)
    \/ BodyUnlink
    \/ BodyOther
    \/ BodyReturn
    \/ BodyRaise
    \/ CallerExit

(***************************************************************************)
(* core/file_safety.py under cli/progress.py: two worker threads of        *)
(* process_files, each in one safe_file_operation scope, thread 1 on the   *)
(* image F and thread 2 on the image G of the same directory.  A step is   *)
(* one call on the file system; nothing fails but for what the other       *)
(* thread did.  A thread's frame has the fields of IdleScope.              *)
(***************************************************************************)
Threads == {1, 2}
ThreadFile(i) == IF i = 1 THEN F ELSE G

\* the variables no thread changes
threadFrame ==
    <<tempOther, ops, scope, eng, fmt, metaVars, sideVars, fields, cfg, check,
      share, rd>>

\* the pool runs the task: "with safe_file_operation(file_path)" is entered
ThreadEnter(i) ==
    /\ thr[i].pc = "idle"
    /\ thr' = [thr EXCEPT ![i] = EnterScope("caller", ThreadFile(i), TRUE)]
    /\ UNCHANGED <<fs, tempDir, now, threadFrame>>

\* lines 155-157: the backup
ThreadBackup(i) ==
    /\ thr[i].pc = "backup"
    /\ LET r == CreateBackup(fs, thr[i].file_path, now, FALSE)
       IN  /\ fs' = r.fs
           /\ thr' = [thr EXCEPT ![i] =
                        IF r.err = "none"
                        THEN [@ EXCEPT !.pc = "mktemp", !.backup_path = r.path]
                        ELSE [@ EXCEPT !.pc = "except", !.exc = r.err]]
    /\ UNCHANGED <<tempDir, now, threadFrame>>

\* lines 160-162: temp_dir.mkdir(exist_ok=True), and the temp path is named
ThreadMkdir(i) ==
    /\ thr[i].pc = "mktemp"
    /\ tempDir' = TRUE
    /\ thr' = [thr EXCEPT ![i] =
                 [@ EXCEPT !.pc = "copy",
                           !.temp_path = TempPath(thr[i].file_path, now)]]
    /\ UNCHANGED <<fs, now, threadFrame>>

\* lines 164-169: shutil.copy2(file_path, temp_path), which raises
\* FileNotFoundError when the directory .temp is not there, and the yield
ThreadCopy(i) ==
    /\ thr[i].pc = "copy"
    /\ IF Exists(fs, thr[i].file_path) /\ ~tempDir
       THEN /\ fs' = fs
            /\ thr' = [thr EXCEPT ![i] = [@ EXCEPT !.pc = "except",
                                                   !.exc = "FileNotFoundError"]]
       ELSE /\ fs' = CopyToTemp(fs, thr[i].file_path, thr[i].temp_path)
            /\ thr' = [thr EXCEPT ![i] = [@ EXCEPT !.pc = "body"]]
    /\ UNCHANGED <<tempDir, now, threadFrame>>

\* the body of the scope writes c to the temp path and returns; opening the
\* temp path raises FileNotFoundError when .temp is not there
ThreadBody(i, c) ==
    /\ thr[i].pc = "body"
    /\ IF tempDir
       THEN /\ fs' = [fs EXCEPT ![thr[i].temp_path] = c]
            /\ thr' = [thr EXCEPT ![i] = [@ EXCEPT !.pc = "commit", !.wrote = TRUE,
                                                   !.left = c]]
       ELSE /\ fs' = fs
            /\ thr' = [thr EXCEPT ![i] = [@ EXCEPT !.pc = "except",
                                                   !.exc = "FileNotFoundError",
                                                   !.bodyRaised = TRUE]]
    /\ UNCHANGED <<tempDir, now, threadFrame>>

\* lines 171-175: shutil.move(temp_path, file_path) if the temp file exists
ThreadCommit(i) ==
    /\ thr[i].pc = "commit"
    /\ fs' = IF Exists(fs, thr[i].temp_path)
             THEN [fs EXCEPT ![thr[i].file_path] = fs[thr[i].temp_path],
                             ![thr[i].temp_path] = Absent]
             ELSE fs
    /\ thr' = [thr EXCEPT ![i] = [@ EXCEPT !.pc = "finally"]]
    /\ UNCHANGED <<tempDir, now, threadFrame>>

\* lines 177-188: the handler restores from the backup and re-raises
ThreadExcept(i) ==
    /\ thr[i].pc = "except"
    /\ fs' = IF ShouldRestore(fs, thr[i])
             THEN [fs EXCEPT ![thr[i].file_path] = fs[thr[i].backup_path]]
             ELSE fs
    /\ thr' = [thr EXCEPT ![i] = [@ EXCEPT !.pc = "finally"]]
    /\ UNCHANGED <<tempDir, now, threadFrame>>

\* lines 192-196: the temp file is deleted if there is one
ThreadUnlink(i) ==
    /\ thr[i].pc = "finally"
    /\ fs' = UnlinkTemp(fs, thr[i])
    /\ thr' = [thr EXCEPT ![i] = [@ EXCEPT !.pc = "rmdir"]]
    /\ UNCHANGED <<tempDir, now, threadFrame>>

\* lines 198-204: .temp is removed if it exists and is empty (rmdir of a
\* directory that is not empty fails, which is ignored)
ThreadRmdir(i) ==
    /\ thr[i].pc = "rmdir"
    /\ tempDir' = TempDirAfterRmdir(fs, tempDir, tempOther)
    /\ thr' = [thr EXCEPT ![i] = [@ EXCEPT !.pc = "done"]]
    /\ UNCHANGED <<fs, now, threadFrame>>

NextThreads ==
    \/ Tick
    \/ \E i \in Threads :
          \/ ThreadEnter(i)
          \/ ThreadBackup(i)
          \/ ThreadMkdir(i)
          \/ ThreadCopy(i)
          \/ \E c \in {Img(1, 1), Img(2, 0)} : ThreadBody(i, c)
          \/ ThreadCommit(i)
          \/ ThreadExcept(i)
          \/ ThreadUnlink(i)
          \/ ThreadRmdir(i)

(***************************************************************************)
(* core/base_adapter.py and adapters/*.py: the integrity checks.           *)
(***************************************************************************)
Formats == {"JPEG", "PNG", "TIFF", "GIF", "WebP"}
\* the adapters whose write/strip run inside safe_file_operation
ScopedFormats == {"JPEG", "PNG"}

EmptyHash == <<"", 0>>

\* BaseMetadataAdapter.get_pixel_hash: SHA-256 of the decoded RGB bytes (one
\* hash per pixel content), the empty string when the file cannot be decoded
GetPixelHash(c) == IF c.kind = "img" THEN <<"sha256", c.px>> ELSE EmptyHash

\* a check that compares the two hashes and nothing else
VerifyHashesEqual(orig, mod) == GetPixelHash(orig) = GetPixelHash(mod)

\* BaseMetadataAdapter.verify_pixel_integrity
VerifyPixelIntegrity(orig, mod) ==
    GetPixelHash(orig) = GetPixelHash(mod) /\ GetPixelHash(orig) # EmptyHash

\* arithmetic of numpy's uint8 arrays
U8(x) == x % 256

\* max_acceptable_mse = 2.0
MaxAcceptableMse == 2

\* np.mean((orig_array - mod_array) ** 2) on uint8 arrays of one sample
JpegMse(orig, mod) == U8(U8(orig.px - mod.px) * U8(orig.px - mod.px))

\* JPEGAdapter.verify_jpeg_integrity (numpy present; the encoders of the
\* model keep dimensions and mode)
VerifyJpegIntegrity(orig, mod) ==
    IF orig.kind # "img" \/ mod.kind # "img"
    THEN FALSE
    ELSE ~(JpegMse(orig, mod) > MaxAcceptableMse)

\* the check the adapter of a format runs between saving and leaving the scope
AdapterPixelCheck(format, orig, mod) ==
    IF format = "JPEG" THEN VerifyJpegIntegrity(orig, mod)
    ELSE VerifyPixelIntegrity(orig, mod)

NoCheck == [fn |-> "none", orig |-> Absent, mod |-> Absent, ret |-> FALSE]

\* a caller asks an adapter verify_pixel_integrity(original, modified) on two
\* paths that hold an image or undecodable bytes, or do not exist
CallVerifyPixelIntegrity(orig, mod) ==
    /\ check' = [fn |-> "verify_pixel_integrity", orig |-> orig, mod |-> mod,
                 ret |-> VerifyPixelIntegrity(orig, mod)]
    /\ UNCHANGED <<fsVars, metaVars, sideVars, fields, cfg, share, rd, thr>>

\* a caller asks the JPEG adapter verify_jpeg_integrity(original, modified)
CallVerifyJpegIntegrity(orig, mod) ==
    /\ check' = [fn |-> "verify_jpeg_integrity", orig |-> orig, mod |-> mod,
                 ret |-> VerifyJpegIntegrity(orig, mod)]
    /\ UNCHANGED <<fsVars, metaVars, sideVars, fields, cfg, share, rd, thr>>

NextCheck ==
    \/ \E orig, mod \in FileContents \cup {Absent} : CallVerifyPixelIntegrity(orig, mod)
    \/ \E orig, mod \in FileContents \cup {Absent} : CallVerifyJpegIntegrity(orig, mod)

(***************************************************************************)
(* core/engine.py: write_metadata and strip_metadata on the image F, in    *)
(* place or to the output path G, through the adapter of the format.       *)
(***************************************************************************)
IdleEng ==
    [pc |-> "idle", op |-> "none", file |-> NoPath, out |-> NoPath,
     create_backup |-> FALSE, md |-> 0, err |-> "none", backup |-> NoPath,
     preFile |-> Absent, preOut |-> Absent, backupsBefore |-> {},
     adapterCalled |-> FALSE, checkFailed |-> FALSE]

\* an engine that takes no backup of its own
EngineShouldBackupNever(e) == FALSE

\* "if create_backup and output_path == file_path"
EngineShouldBackup(e) == e.create_backup /\ e.out = e.file

\* what the adapter's save writes: no metadata on strip, the object's on write
SavedMd(e) == IF e.op = "strip" THEN 0 ELSE e.md

\* MetadataEngine.write_metadata / strip_metadata is called; get_adapter finds
\* the file and its adapter.  md: whether the ImageMetadata to write has keys.
\* strip_gps_data reads the file's metadata, removes keys from the object and
\* ends in this write_metadata
EngineCall(op, out, cb, md) ==
    /\ eng.pc = "idle" /\ scope.pc = "idle"
    /\ ops < MaxOps
    /\ Exists(fs, F)
    /\ ops' = ops + 1
    /\ eng' = [IdleEng EXCEPT !.pc = "backup", !.op = op, !.file = F, !.out = out,
                              !.create_backup = cb, !.md = md, !.preFile = fs[F],
                              !.preOut = fs[out],
                              !.backupsBefore = BackupFiles(fs)]
    /\ UNCHANGED <<fs, tempDir, tempOther, now, scope, fmt, meta, call, extVars>>

\* engine.py lines 150-152 / 191-193; fault: the backup copy fails, and the
\* error propagates to the engine's caller
EngineBackup(fault) ==
    /\ eng.pc = "backup"
    /\ IF EngineShouldBackup(eng)
       THEN LET r == CreateBackup(fs, eng.file, now, fault)
            IN  /\ fs' = r.fs
                /\ eng' = IF r.err = "none"
                          THEN [eng EXCEPT !.pc = "adapter", !.backup = r.path]
                          ELSE [eng EXCEPT !.pc = "done", !.err = r.err]
       ELSE /\ fault = FALSE
            /\ fs' = fs
            /\ eng' = [eng EXCEPT !.pc = "adapter"]
    /\ UNCHANGED <<tempDir, tempOther, now, ops, scope, fmt, meta, call, extVars>>

\* an adapter that writes where it reads
SourcePath(e) == e.file

\* "if output_path is None: output_path = metadata.file_path" of the adapters'
\* write_metadata and strip_metadata: the path the adapter writes
AdapterTarget(e) == IF e.out = NoPath THEN e.file ELSE e.out

\* JPEG and PNG: "with self.safety_manager.safe_file_operation(output_path)",
\* create_backup left at its default True.  validate_file (strip) passes: the
\* engine found the file and chose the adapter by its suffix
AdapterEnter ==
    /\ eng.pc = "adapter" /\ fmt \in ScopedFormats
    /\ scope.pc = "idle"
    /\ scope' = EnterScope("adapter", AdapterTarget(eng), TRUE)
    /\ eng' = [eng EXCEPT !.pc = "save", !.adapterCalled = TRUE]
    /\ UNCHANGED <<fs, tempDir, tempOther, now, ops, fmt, meta, call, extVars>>

\* JPEG and PNG: Image.open(source) and img.save(temp_path, ...).  px: the
\* pixel data the encoder writes; fault: save raises, which leaves a file it
\* did not create truncated
AdapterSave(px, fault) ==
    /\ eng.pc = "save" /\ scope.pc = "body" /\ scope.owner = "adapter"
    /\ IF fs[eng.file].kind # "img"
       THEN /\ fault = FALSE /\ px = 0
            /\ fs' = fs
            /\ scope' = [scope EXCEPT !.pc = "except", !.bodyRaised = TRUE,
                                      !.exc = "UnidentifiedImageError",
                                      !.left = fs[scope.temp_path]]
            /\ eng' = [eng EXCEPT !.pc = "exit"]
       ELSE IF fault
       THEN /\ px = 0
            /\ fs' = [fs EXCEPT ![scope.temp_path] =
                         IF Exists(fs, scope.temp_path) THEN Junk ELSE Absent]
            /\ scope' = [scope EXCEPT !.pc = "except", !.bodyRaised = TRUE,
                                      !.exc = "OSError", !.wrote = TRUE,
                                      !.left = fs'[scope.temp_path]]
            /\ eng' = [eng EXCEPT !.pc = "exit"]
       ELSE /\ fs' = [fs EXCEPT ![scope.temp_path] = Img(px, SavedMd(eng))]
            /\ scope' = [scope EXCEPT !.wrote = TRUE]
            /\ eng' = [eng EXCEPT !.pc = "verify"]
    /\ UNCHANGED <<tempDir, tempOther, now, ops, fmt, meta, call, extVars>>

\* JPEG and PNG: the integrity check on the temp file; failing it raises
\* PixelDataCorruptionError inside the scope
AdapterVerify ==
    /\ eng.pc = "verify" /\ scope.pc = "body" /\ scope.owner = "adapter"
    /\ IF AdapterPixelCheck(fmt, fs[eng.file], fs[scope.temp_path])
       THEN /\ scope' = [scope EXCEPT !.pc = "commit", !.left = fs[scope.temp_path]]
            /\ eng' = [eng EXCEPT !.pc = "exit"]
       ELSE /\ scope' = [scope EXCEPT !.pc = "except", !.bodyRaised = TRUE,
                                      !.exc = "PixelDataCorruptionError",
                                      !.left = fs[scope.temp_path]]
            /\ eng' = [eng EXCEPT !.pc = "exit", !.checkFailed = TRUE]
    /\ UNCHANGED <<fs, tempDir, tempOther, now, ops, fmt, meta, call, extVars>>

\* "except Exception as e: raise MetadataError(...)" around the scope
AdapterError(exc) == IF exc = "none" THEN "none" ELSE "MetadataError"

\* JPEG and PNG: the scope has exited; the adapter returns output_path or
\* raises, and the engine re-raises
AdapterReturn ==
    /\ eng.pc \in {"save", "exit"}
    /\ scope.pc = "done" /\ scope.owner = "adapter"
    /\ eng' = [eng EXCEPT !.pc = "done", !.err = AdapterError(scope.exc)]
    /\ scope' = IdleScope
    /\ UNCHANGED <<fs, tempDir, tempOther, now, ops, fmt, meta, call, extVars>>

\* TIFF, GIF, WebP: Image.open(source), then save(output_path, ...) on the
\* output path itself; on strip verify_file_integrity's result is dropped.
\* px, fault: as for AdapterSave
DirectSave(px, fault) ==
    /\ eng.pc = "adapter" /\ fmt \notin ScopedFormats
    /\ IF fs[eng.file].kind # "img"
       THEN /\ fault = FALSE /\ px = 0
            /\ fs' = fs
            /\ eng' = [eng EXCEPT !.pc = "done", !.adapterCalled = TRUE,
                                  !.err = AdapterError("UnidentifiedImageError")]
       ELSE IF fault
       THEN /\ px = 0
            /\ fs' = [fs EXCEPT ![AdapterTarget(eng)] =
                         IF Exists(fs, AdapterTarget(eng)) THEN Junk ELSE Absent]
            /\ eng' = [eng EXCEPT !.pc = "done", !.adapterCalled = TRUE,
                                  !.err = AdapterError("OSError")]
       ELSE /\ fs' = [fs EXCEPT ![AdapterTarget(eng)] = Img(px, SavedMd(eng))]
            /\ eng' = [eng EXCEPT !.pc = "done", !.adapterCalled = TRUE]
    /\ UNCHANGED <<tempDir, tempOther, now, ops, scope, fmt, meta, call, extVars>>

\* the engine's caller has the result (or the exception)
EngineReturn ==
    /\ eng.pc = "done"
    /\ eng' = IdleEng
    /\ UNCHANGED <<fs, tempDir, tempOther, now, ops, scope, fmt, meta, call, extVars>>

NextEngine ==
    \/ Tick
    \/ \E op \in {"write", "strip"}, out \in {F, G}, cb \in BOOLEAN, md \in {0, 1} :
           EngineCall(op, out, cb, md)
    \/ \E fault \in BOOLEAN : EngineBackup(fault)
    \/ AdapterEnter
    \/ ScopeStep
    \/ \E px \in PixelVals, fault \in BOOLEAN : AdapterSave(px, fault)
    \/ AdapterVerify
    \/ AdapterReturn
    \/ \E px \in PixelVals, fault \in BOOLEAN : DirectSave(px, fault)
    \/ EngineReturn

(***************************************************************************)
(* core/engine.py: the registry of adapters and get_adapter.  An extension *)
(* is a sequence of characters; an adapter instance is named by its        *)
(* format, and "JPEG2" is a second JPEG adapter a caller registers.        *)
(***************************************************************************)
\* the extensions the adapters name in supported_formats
Ext ==
    [jpg |-> <<"j", "p", "g">>, jpeg |-> <<"j", "p", "e", "g">>,
     jpe |-> <<"j", "p", "e">>, jfif |-> <<"j", "f", "i", "f">>,
     png |-> <<"p", "n", "g">>, tiff |-> <<"t", "i", "f", "f">>,
     tif |-> <<"t", "i", "f">>, gif |-> <<"g", "i", "f">>,
     webp |-> <<"w", "e", "b", "p">>]

\* supported_formats of an adapter instance
SupportedFormats(adapter) ==
    CASE adapter \in {"JPEG", "JPEG2"} -> {Ext.jpg, Ext.jpeg, Ext.jpe, Ext.jfif}
      [] adapter = "PNG" -> {Ext.png}
      [] adapter = "TIFF" -> {Ext.tiff, Ext.tif}
      [] adapter = "GIF" -> {Ext.gif}
      [] adapter = "WebP" -> {Ext.webp}

\* the adapters a caller may register
CustomAdapters == {"TIFF", "GIF", "WebP", "JPEG2"}

\* "for format_ext in adapter.supported_formats:
\*      self.adapters[format_ext.lower()] = adapter"
RegisterInto(reg, adapter) ==
    LET exts == {Lower(e) : e \in SupportedFormats(adapter)}
    IN  [e \in DOMAIN reg \cup exts |-> IF e \in exts THEN adapter ELSE reg[e]]

\* _register_adapters: the JPEG adapter, then the PNG adapter
BuiltInAdapters == RegisterInto(RegisterInto(<<>>, "JPEG"), "PNG")

\* str.lstrip('.')
RECURSIVE LStripDot(_)
LStripDot(s) == IF s # <<>> /\ Head(s) = "." THEN LStripDot(Tail(s)) ELSE s

\* an extension taken as it is spelt
NormExtKeepCase(suffix) == LStripDot(suffix)

\* file_path.suffix.lower().lstrip('.')
NormExt(suffix) == LStripDot(Lower(suffix))

\* mimetypes.guess_type on the path, which looks the suffix up without regard
\* to case (the standard library's table, image types only)
MimeGuess(suffix) ==
    LET e == LStripDot(Lower(suffix))
    IN  CASE e \in {Ext.jpg, Ext.jpeg, Ext.jpe} -> "image/jpeg"
          [] e = Ext.png -> "image/png"
          [] e \in {Ext.tiff, Ext.tif} -> "image/tiff"
          [] e = Ext.webp -> "image/webp"
          [] e = Ext.gif -> "image/gif"
          [] OTHER -> "none"

\* format_map.get(mime_type)
FormatMap(mime) ==
    CASE mime = "image/jpeg" -> Ext.jpg
      [] mime = "image/png" -> Ext.png
      [] mime = "image/tiff" -> Ext.tiff
      [] mime = "image/webp" -> Ext.webp
      [] mime = "image/gif" -> Ext.gif
      [] OTHER -> <<>>

Found(adapter) == [adapter |-> adapter, err |-> "none"]
Raised(err) == [adapter |-> "none", err |-> err]

\* lines 74-95 of get_adapter: the lookup by extension, then by MIME type
AdapterByExtension(reg, suffix) ==
    LET extension == NormExt(suffix)
        mapped_format == FormatMap(MimeGuess(suffix))
    IN  IF extension \in DOMAIN reg THEN Found(reg[extension])
        ELSE IF mapped_format # <<>> /\ mapped_format \in DOMAIN reg
        THEN Found(reg[mapped_format])
        ELSE Raised("UnsupportedFormatError")

\* a get_adapter that looks at the extension before it looks for the file
GetAdapterExtensionFirst(reg, exists, suffix) ==
    LET r == AdapterByExtension(reg, suffix)
    IN  IF r.err # "none" THEN r
        ELSE IF ~exists THEN Raised("FileError") ELSE r

\* MetadataEngine.get_adapter(file_path); exists: file_path.exists()
GetAdapter(reg, exists, suffix) ==
    IF ~exists THEN Raised("FileError") ELSE AdapterByExtension(reg, suffix)

\* the suffixes of the paths the model's callers ask about
SuffixPool ==
    {<<>>,
     <<".", "j", "p", "g">>, <<".", "J", "P", "G">>, <<".", "J", "p", "e", "g">>,
     <<".", "j", "f", "i", "f">>, <<".", "J", "F", "I", "F">>,
     <<".", "p", "n", "g">>, <<".", "P", "N", "G">>,
     <<".", "t", "i", "f">>, <<".", "T", "I", "F">>,
     <<".", "w", "e", "b", "p">>, <<".", "G", "i", "f">>,
     <<".", "t", "x", "t">>, <<".", "T", "X", "T">>}

NoLookup == [called |-> FALSE, suffix |-> <<>>, exists |-> FALSE, ret |-> Raised("none")]

\* a caller registers an adapter: MetadataEngine.register_adapter
RegisterAdapter(adapter) ==
    /\ adapters' = RegisterInto(adapters, adapter)
    /\ lookup' = NoLookup
    /\ UNCHANGED <<fsVars, metaVars, batchVars, backupVars, pngVars, moreVars>>

\* a caller asks for the adapter of a path that exists or does not
GetAdapterCall(suffix, exists) ==
    /\ adapters' = adapters
    /\ lookup' = [called |-> TRUE, suffix |-> suffix, exists |-> exists,
                  ret |-> GetAdapter(adapters, exists, suffix)]
    /\ UNCHANGED <<fsVars, metaVars, batchVars, backupVars, pngVars, moreVars>>

NextAdapter ==
    \/ \E adapter \in CustomAdapters : RegisterAdapter(adapter)
    \/ \E suffix \in SuffixPool, exists \in BOOLEAN : GetAdapterCall(suffix, exists)

(***************************************************************************)
(* core/engine.py batch_process and cli/progress.py                        *)
(* BatchProcessor.process_files.  The input paths are JPEG files of one    *)
(* directory, of which MissingFiles do not exist; the result map is a      *)
(* function from str(path) to a Path or an exception.                      *)
(***************************************************************************)
MaxBatch == 3
MaxWorkers == 2

BatchFiles == {"a", "b", "c"}
MissingFiles == {"c"}
Operations == {"strip", "rotate"}

\* the lists of at most MaxBatch paths
BatchLists == UNION {[1..k -> BatchFiles] : k \in 0..MaxBatch}

PathResult(file) == [kind |-> "Path", value |-> file]
ExceptionResult(err) == [kind |-> "Exception", value |-> err]

\* what the operation on one file does: it returns the output path, or raises
\* what get_adapter raises for the file; batch_process raises ValueError for
\* an operation it does not know
OperationOutcome(operation, file) ==
    IF operation \notin {"strip", "strip_gps", "export"}
    THEN ExceptionResult("ValueError")
    ELSE LET r == GetAdapter(BuiltInAdapters, file \notin MissingFiles,
                             <<".", "j", "p", "g">>)
         IN  IF r.err # "none" THEN ExceptionResult(r.err) ELSE PathResult(file)

\* results[str(path)] = value
SetResult(results, key, value) ==
    [k \in DOMAIN results \cup {key} |-> IF k = key THEN value ELSE results[k]]

\* a handler that logs the exception and moves on
DropException(results, key, e) == results

\* "except Exception as e: results[str(input_path)] = e"
RecordException(results, key, e) == SetResult(results, key, e)

\* the result map after the try statement around one file's outcome
AfterTry(results, key, outcome) ==
    IF outcome.kind = "Exception"
    THEN RecordException(results, key, outcome)
    ELSE SetResult(results, key, outcome)

IdleBatch ==
    [pc |-> "idle", inputs |-> <<>>, operation |-> "none", workers |-> 0, i |-> 0,
     status |-> <<>>, results |-> <<>>]

\* MetadataEngine.batch_process(input_paths, operation) is called
BatchProcessCall(inputs, operation) ==
    /\ batch.pc = "idle"
    /\ batch' = [IdleBatch EXCEPT !.pc = "loop", !.inputs = inputs,
                                  !.operation = operation, !.i = 1]
    /\ UNCHANGED <<fsVars, metaVars, registryVars, backupVars, pngVars, moreVars>>

\* engine.py lines 351-372: one turn of the loop of batch_process
BatchProcessStep ==
    /\ batch.pc = "loop" /\ batch.i <= Len(batch.inputs)
    /\ LET file == batch.inputs[batch.i]
       IN  batch' = [batch EXCEPT
                        !.results = AfterTry(batch.results, file,
                                             OperationOutcome(batch.operation, file)),
                        !.i = batch.i + 1]
    /\ UNCHANGED <<fsVars, metaVars, registryVars, backupVars, pngVars, moreVars>>

\* engine.py line 374: return results
BatchProcessReturn ==
    /\ batch.pc = "loop" /\ batch.i > Len(batch.inputs)
    /\ batch' = [batch EXCEPT !.pc = "returned"]
    /\ UNCHANGED <<fsVars, metaVars, registryVars, backupVars, pngVars, moreVars>>

\* BatchProcessor(max_workers).process_files(files, operation_func) is
\* called: progress.py lines 101-127.  No file: the empty map is returned;
\* one file or one worker: the loop; otherwise every file is submitted to
\* the pool
ProcessFilesCall(files, max_workers) ==
    /\ batch.pc = "idle"
    /\ batch' =
          IF files = <<>>
          THEN [IdleBatch EXCEPT !.pc = "returned", !.workers = max_workers]
          ELSE IF Len(files) = 1 \/ max_workers = 1
          THEN [IdleBatch EXCEPT !.pc = "serial", !.inputs = files,
                                 !.operation = "strip", !.workers = max_workers,
                                 !.i = 1]
          ELSE [IdleBatch EXCEPT !.pc = "pool", !.inputs = files,
                                 !.operation = "strip", !.workers = max_workers,
                                 !.status = [j \in 1..Len(files) |-> "submitted"]]
    /\ UNCHANGED <<fsVars, metaVars, registryVars, backupVars, pngVars, moreVars>>

\* progress.py lines 111-119: one turn of the single-threaded loop
SerialStep ==
    /\ batch.pc = "serial" /\ batch.i <= Len(batch.inputs)
    /\ LET file == batch.inputs[batch.i]
       IN  batch' = [batch EXCEPT
                        !.results = AfterTry(batch.results, file,
                                             OperationOutcome(batch.operation, file)),
                        !.i = batch.i + 1]
    /\ UNCHANGED <<fsVars, metaVars, registryVars, backupVars, pngVars, moreVars>>

\* a worker thread of the pool takes a submitted task
WorkerStart(j) ==
    /\ batch.pc = "pool" /\ j \in DOMAIN batch.status /\ batch.status[j] = "submitted"
    /\ Cardinality({x \in DOMAIN batch.status : batch.status[x] = "running"})
          < batch.workers
    /\ batch' = [batch EXCEPT !.status[j] = "running"]
    /\ UNCHANGED <<fsVars, metaVars, registryVars, backupVars, pngVars, moreVars>>

\* the task's operation_func has returned or raised: the future is done
WorkerFinish(j) ==
    /\ batch.pc = "pool" /\ j \in DOMAIN batch.status /\ batch.status[j] = "running"
    /\ batch' = [batch EXCEPT !.status[j] = "done"]
    /\ UNCHANGED <<fsVars, metaVars, registryVars, backupVars, pngVars, moreVars>>

\* progress.py lines 130-139: as_completed yields a done future, and the main
\* thread files its result or its exception
CollectFuture(j) ==
    /\ batch.pc = "pool" /\ j \in DOMAIN batch.status /\ batch.status[j] = "done"
    /\ LET file == batch.inputs[j]
       IN  batch' = [batch EXCEPT
                        !.results = AfterTry(batch.results, file,
                                             OperationOutcome(batch.operation, file)),
                        !.status[j] = "collected"]
    /\ UNCHANGED <<fsVars, metaVars, registryVars, backupVars, pngVars, moreVars>>

\* progress.py lines 141-142: the loops are over, the map is returned
ProcessFilesReturn ==
    /\ \/ batch.pc = "serial" /\ batch.i > Len(batch.inputs)
       \/ batch.pc = "pool" /\ \A j \in DOMAIN batch.status : batch.status[j] = "collected"
    /\ batch' = [batch EXCEPT !.pc = "returned"]
    /\ UNCHANGED <<fsVars, metaVars, registryVars, backupVars, pngVars, moreVars>>

NextBatch ==
    \/ \E inputs \in BatchLists, operation \in Operations :
           BatchProcessCall(inputs, operation)
    \/ BatchProcessStep
    \/ BatchProcessReturn
    \/ \E files \in BatchLists, max_workers \in 1..MaxWorkers :
           ProcessFilesCall(files, max_workers)
    \/ SerialStep
    \/ \E j \in 1..MaxBatch : WorkerStart(j)
    \/ \E j \in 1..MaxBatch : WorkerFinish(j)
    \/ \E j \in 1..MaxBatch : CollectFuture(j)
    \/ ProcessFilesReturn

(***************************************************************************)
(* core/file_safety.py: create_backup called by a caller, with or without  *)
(* a backup path of its own, and cleanup_backups, while another actor may  *)
(* remove backup files.  shutil.copy2 gives the backup the source's        *)
(* st_mtime.                                                               *)
(***************************************************************************)
\* keep_count runs over 0..MaxKeep
MaxKeep == 2

\* the backup_path argument of create_backup: None, a path in the image's
\* directory, a path under directories that may not exist
DestKinds == {"default", "custom", "nested"}

\* lines 70-71: the path the backup goes to
DestPath(file, kind, t) ==
    IF kind = "default" THEN GetBackupPath(file, t) ELSE <<kind, file[2], 0>>

\* FileSafetyManager.create_backup(file_path, backup_path); fault: mkdir or
\* shutil.copy2 fails
CreateBackupTo(fsx, file, backup_path, fault) ==
    IF ~Exists(fsx, file)
    THEN [fs |-> fsx, path |-> NoPath, err |-> "FileError"]
    ELSE IF fault
    THEN [fs |-> fsx, path |-> NoPath, err |-> "BackupError"]
    ELSE [fs |-> [fsx EXCEPT ![backup_path] = fsx[file]],
          path |-> backup_path, err |-> "none"]

\* the paths whose st_mtime the model follows
TimedPaths == {F, G} \cup BackupPaths

NoBackupCall ==
    [called |-> FALSE, file |-> NoPath, kind |-> "default", dest |-> NoPath,
     sourceExisted |-> FALSE, parentExisted |-> FALSE, fault |-> FALSE,
     err |-> "none", path |-> NoPath, destBefore |-> Absent]

\* a caller calls create_backup(file) or create_backup(file, backup_path)
CallerCreateBackup(file, kind, fault) ==
    /\ clean.pc = "idle"
    /\ LET dest == DestPath(file, kind, now)
           r == CreateBackupTo(fs, file, dest, fault)
       IN  /\ fs' = r.fs
           /\ mtime' = IF r.err = "none" /\ dest \in TimedPaths
                       THEN [mtime EXCEPT ![dest] = mtime[file]]
                       ELSE mtime
           /\ nestedDir' = (nestedDir \/ (kind = "nested" /\ r.err = "none"))
           /\ bcall' = [called |-> TRUE, file |-> file, kind |-> kind, dest |-> dest,
                        sourceExisted |-> Exists(fs, file),
                        parentExisted |-> (kind # "nested" \/ nestedDir),
                        fault |-> fault, err |-> r.err, path |-> r.path,
                        destBefore |-> fs[dest]]
    /\ UNCHANGED <<tempDir, tempOther, now, ops, scope, eng, fmt, metaVars,
                   registryVars, batchVars, clean, pngVars, moreVars>>

\* the image is rewritten by its owner: its st_mtime becomes the clock's second
ModifyFile(file) ==
    /\ clean.pc = "idle"
    /\ Exists(fs, file) /\ mtime[file] # now
    /\ mtime' = [mtime EXCEPT ![file] = now]
    /\ UNCHANGED <<fsVars, metaVars, registryVars, batchVars, nestedDir, bcall, clean,
                   pngVars, moreVars>>

\* backup_dir.glob(f"{stem}.backup.*{suffix}"): the timestamped backups of file
GlobBackups(fsx, file) == {p \in BackupFiles(fsx) : p[2] = file[2]}

IdleCleanup ==
    [pc |-> "idle", file |-> NoPath, keep_count |-> 0, backup_files |-> {},
     queue |-> <<>>, deleted_count |-> 0, ret |-> 0, exc |-> "none",
     interfered |-> FALSE, times |-> <<>>, preFile |-> Absent]

\* the orders a list of the files can have
Orders(files) ==
    {sq \in [1..Cardinality(files) -> files] :
        \A i, j \in 1..Cardinality(files) : i # j => sq[i] # sq[j]}

\* a sort that puts the oldest first
OldestFirst(sq, mt) == \A i, j \in DOMAIN sq : i < j => mt[sq[i]] <= mt[sq[j]]

\* backup_files.sort(key=lambda p: p.stat().st_mtime, reverse=True)
NewestFirst(sq, mt) == \A i, j \in DOMAIN sq : i < j => mt[sq[i]] >= mt[sq[j]]

\* backup_files[keep_count:]
DropFirst(sq, n) == SubSeq(sq, n + 1, Len(sq))

\* lines 217-223 of cleanup_backups(file_path, keep_count): the backups are
\* listed; with no more of them than keep_count, 0 is returned
CleanupCall(file, keep_count) ==
    /\ clean.pc = "idle"
    /\ LET backup_files == GlobBackups(fs, file)
       IN  clean' = [IdleCleanup EXCEPT
                        !.pc = IF Cardinality(backup_files) <= keep_count
                               THEN "returned" ELSE "sort",
                        !.file = file, !.keep_count = keep_count,
                        !.backup_files = backup_files,
                        !.times = [p \in backup_files |-> mtime[p]],
                        !.preFile = fs[file]]
    /\ UNCHANGED <<fsVars, metaVars, registryVars, batchVars, mtime, nestedDir, bcall,
                   pngVars, moreVars>>

\* line 226: the sort stats every listed file; stat raises FileNotFoundError
\* for a file that is gone.  Files of equal st_mtime keep the order of the
\* directory listing, which is any order
CleanupSort ==
    /\ clean.pc = "sort"
    /\ IF \E p \in clean.backup_files : ~Exists(fs, p)
       THEN clean' = [clean EXCEPT !.pc = "raised", !.exc = "FileNotFoundError"]
       ELSE \E sq \in Orders(clean.backup_files) :
               /\ NewestFirst(sq, mtime)
               /\ clean' = [clean EXCEPT !.pc = "delete",
                                         !.queue = DropFirst(sq, clean.keep_count)]
    /\ UNCHANGED <<fsVars, metaVars, registryVars, batchVars, mtime, nestedDir, bcall,
                   pngVars, moreVars>>

\* lines 230-236: one turn of the loop; unlink of a file that is gone raises,
\* which is logged
CleanupUnlink ==
    /\ clean.pc = "delete" /\ clean.queue # <<>>
    /\ LET backup_file == Head(clean.queue)
       IN  IF Exists(fs, backup_file)
           THEN /\ fs' = [fs EXCEPT ![backup_file] = Absent]
                /\ clean' = [clean EXCEPT !.queue = Tail(clean.queue),
                                          !.deleted_count = clean.deleted_count + 1]
           ELSE /\ fs' = fs
                /\ clean' = [clean EXCEPT !.queue = Tail(clean.queue)]
    /\ UNCHANGED <<tempDir, tempOther, now, ops, scope, eng, fmt, metaVars,
                   registryVars, batchVars, mtime, nestedDir, bcall, pngVars,
                   moreVars>>

\* lines 238-241: return deleted_count
CleanupReturn ==
    /\ clean.pc = "delete" /\ clean.queue = <<>>
    /\ clean' = [clean EXCEPT !.pc = "returned", !.ret = clean.deleted_count]
    /\ UNCHANGED <<fsVars, metaVars, registryVars, batchVars, mtime, nestedDir, bcall,
                   pngVars, moreVars>>

\* the caller has the count (or the exception)
CleanupDone ==
    /\ clean.pc \in {"returned", "raised"}
    /\ clean' = IdleCleanup
    /\ UNCHANGED <<fsVars, metaVars, registryVars, batchVars, mtime, nestedDir, bcall,
                   pngVars, moreVars>>

\* another actor removes a backup while cleanup_backups runs
OtherRemovesBackup(p) ==
    /\ clean.pc \in {"sort", "delete"}
    /\ Exists(fs, p)
    /\ fs' = [fs EXCEPT ![p] = Absent]
    /\ clean' = [clean EXCEPT !.interfered = TRUE]
    /\ UNCHANGED <<tempDir, tempOther, now, ops, scope, eng, fmt, metaVars,
                   registryVars, batchVars, mtime, nestedDir, bcall, pngVars,
                   moreVars>>

NextBackup ==
    \/ Tick
    \/ \E file \in {F, G}, kind \in DestKinds, fault \in BOOLEAN :
           CallerCreateBackup(file, kind, fault)
    \/ ModifyFile(F)
    \/ \E keep_count \in 0..MaxKeep : CleanupCall(F, keep_count)
    \/ CleanupSort
    \/ CleanupUnlink
    \/ CleanupReturn
    \/ CleanupDone
    \/ \E p \in BackupPaths : OtherRemovesBackup(p)

(***************************************************************************)
(* adapters/png_adapter.py and core/engine.py: a PNG file's text chunks    *)
(* through export_metadata, strip_metadata, restore_metadata and           *)
(* read_metadata.  A file is its signature and the set of its text chunks  *)
(* [type, keyword]; a keyword and a key of the custom block are sequences  *)
(* of characters.                                                          *)
(***************************************************************************)
\* number of text chunks of the file
MaxChunks == 2

\* the eight bytes every PNG file starts with
PngSignature == <<"0x89", "P", "N", "G", "0x0D", "0x0A", "0x1A", "0x0A">>

\* the bytes literal of line 83, b'\\x89PNG\\r\\n\\x1a\\n', byte by byte
SignatureLiteral ==
    <<"\\", "x", "8", "9", "P", "N", "G", "\\", "r", "\\", "n",
      "\\", "x", "1", "a", "\\", "n">>

\* ord(c) of the characters of the model's keywords; e' is U+00E9, a
\* printable Latin-1 character that a PNG keyword may hold
Ord(c) ==
    CASE c = "T" -> 84
      [] c = "U" -> 85
      [] c = "x" -> 120
      [] c = "m" -> 109
      [] c = "p" -> 112
      [] c = ":" -> 58
      [] c = "e'" -> 233
      [] OTHER -> 63

KeywordPool ==
    {<<"T">>, <<"U">>, <<"T", "e'">>, <<"x", "m", "p">>, <<"G", "P", "S">>}
ChunkTypes == {"tEXt", "iTXt", "zTXt"}
TextChunks == [type : ChunkTypes, keyword : KeywordPool]
\* the files of at most MaxChunks text chunks
ChunkSets == {x \in SUBSET TextChunks : Cardinality(x) <= MaxChunks}

\* the prefixes of the keys of the custom block
Prefix ==
    [tEXt |-> <<"t", "E", "X", "t", ":">>, iTXt |-> <<"i", "T", "X", "t", ":">>,
     zTXt |-> <<"z", "T", "X", "t", ":">>, PIL |-> <<"P", "I", "L", ":">>]

\* str.startswith
StartsWith(key, prefix) ==
    Len(key) >= Len(prefix) /\ SubSeq(key, 1, Len(prefix)) = prefix

\* the key a chunk parsed by _process_text_chunk, _process_itext_chunk (no
\* language tag) or _process_ztext_chunk gets
ChunkKey(chunk) ==
    CASE chunk.type = "tEXt" -> Prefix.tEXt \o chunk.keyword
      [] chunk.type = "iTXt" -> Prefix.iTXt \o chunk.keyword
      [] chunk.type = "zTXt" -> Prefix.zTXt \o chunk.keyword

\* _read_png_chunks: the keys it sets in the custom block.  The first eight
\* bytes are compared with the literal; on a difference MetadataError is
\* raised and caught by the method's own handler, and no chunk is read
ReadPngChunks(file) ==
    IF file.signature # SignatureLiteral
    THEN {}
    ELSE {ChunkKey(chunk) : chunk \in file.chunks}

\* img.text of PIL: the keywords of the text chunks of any type, a chunk
\* with an empty keyword being skipped
ImgText(file) == {chunk.keyword : chunk \in {c \in file.chunks : c.keyword # <<>>}}

\* _read_pil_metadata after _read_png_chunks: the keys of the custom block
ReadCustomKeys(file) ==
    LET fromChunks == ReadPngChunks(file)
    IN  fromChunks \cup
        {Prefix.PIL \o k : k \in {x \in ImgText(file) : Prefix.tEXt \o x \notin fromChunks}}

\* the XMP block after read_metadata: XMP_Raw is set by _process_itext_chunk
\* for the keywords xmp and xml:com.adobe.xmp
ReadHasXmp(file) ==
    /\ file.signature = SignatureLiteral
    /\ \E chunk \in file.chunks :
          chunk.type = "iTXt" /\ Lower(chunk.keyword) = <<"x", "m", "p">>

\* key.split(':', 1)[1] if ':' in key else key
RECURSIVE AfterColon(_)
AfterColon(key) ==
    IF key = <<>> THEN <<>>
    ELSE IF Head(key) = ":" THEN Tail(key) ELSE AfterColon(Tail(key))

\* lines 237-241 of write_metadata: the keyword of a key of the custom block
ActualKey(key) ==
    IF StartsWith(key, Prefix.tEXt) \/ StartsWith(key, Prefix.PIL)
    THEN AfterColon(key)
    ELSE key

\* _clean_png_keyword
CleanPngKeyword(keyword) ==
    LET Printable(c) == Ord(c) >= 32 /\ Ord(c) <= 126
        cleaned == SelectSeq(keyword, Printable)
    IN  IF Len(cleaned) > 79 THEN SubSeq(cleaned, 1, 79) ELSE cleaned

XmpKeyword ==
    <<"X", "M", "L", ":", "c", "o", "m", ".", "a", "d", "o", "b", "e", ".", "x", "m", "p">>

\* the text chunks write_metadata saves: one add_text per key of the custom
\* block, and one for XMP_Raw
WrittenChunks(customKeys, hasXmp) ==
    {[type |-> "tEXt", keyword |-> CleanPngKeyword(ActualKey(k))] : k \in customKeys}
        \cup (IF hasXmp THEN {[type |-> "tEXt", keyword |-> XmpKeyword]} ELSE {})

IdlePng ==
    [pc |-> "none", file |-> [signature |-> <<>>, chunks |-> {}],
     exported |-> {}, exportedXmp |-> FALSE, restored |-> {}]

\* somebody has a PNG file with some text chunks
PngCreate(chunks) ==
    /\ png.pc = "none"
    /\ png' = [IdlePng EXCEPT !.pc = "file",
                              !.file = [signature |-> PngSignature, chunks |-> chunks]]
    /\ UNCHANGED <<fsVars, metaVars, registryVars, batchVars, backupVars, moreVars>>

\* MetadataEngine.export_metadata(file, json): read_metadata, to_json
PngExport ==
    /\ png.pc = "file"
    /\ png' = [png EXCEPT !.pc = "exported",
                          !.exported = ReadCustomKeys(png.file),
                          !.exportedXmp = ReadHasXmp(png.file)]
    /\ UNCHANGED <<fsVars, metaVars, registryVars, batchVars, backupVars, moreVars>>

\* MetadataEngine.strip_metadata(file): the image is saved with no pnginfo
PngStrip ==
    /\ png.pc = "exported"
    /\ png' = [png EXCEPT !.pc = "stripped", !.file.chunks = {}]
    /\ UNCHANGED <<fsVars, metaVars, registryVars, batchVars, backupVars, moreVars>>

\* MetadataEngine.restore_metadata(file, json): from_dict, write_metadata
PngRestore ==
    /\ png.pc = "stripped"
    /\ png' = [png EXCEPT !.pc = "restored",
                          !.file.chunks = WrittenChunks(png.exported, png.exportedXmp)]
    /\ UNCHANGED <<fsVars, metaVars, registryVars, batchVars, backupVars, moreVars>>

\* MetadataEngine.read_metadata(file) on the restored file
PngReadBack ==
    /\ png.pc = "restored"
    /\ png' = [png EXCEPT !.pc = "read", !.restored = ReadCustomKeys(png.file)]
    /\ UNCHANGED <<fsVars, metaVars, registryVars, batchVars, backupVars, moreVars>>

\* MetadataEngine.strip_gps_data(file): read_metadata, strip_gps_data on the
\* object, write_metadata; exported keeps the keys read_metadata returned
PngStripGps ==
    /\ png.pc = "file"
    /\ LET read == ReadCustomKeys(png.file)
           customData == [k \in read |-> "v"]
           kept == BlockKeys(RemoveKeys(customData, GpsKeysToRemove(customData), 0).data)
       IN  png' = [png EXCEPT !.pc = "gps_stripped",
                              !.exported = read,
                              !.exportedXmp = ReadHasXmp(png.file),
                              !.file.chunks = WrittenChunks(kept, ReadHasXmp(png.file))]
    /\ UNCHANGED <<fsVars, metaVars, registryVars, batchVars, backupVars, moreVars>>

NextPng ==
    \/ \E chunks \in ChunkSets : PngCreate(chunks)
    \/ PngStripGps
    \/ PngExport
    \/ PngStrip
    \/ PngRestore
    \/ PngReadBack

(***************************************************************************)
(* adapters/png_adapter.py: read_metadata on an existing, readable file    *)
(* with the suffix .png and any bytes.  The file is its first bytes (at    *)
(* most eight) and the number of bytes after them; what a chunk header     *)
(* declares is whatever bytes the file holds at that place, so every       *)
(* length and type may be read at every position.                          *)
(***************************************************************************)
\* number of bytes of the file after its first eight
MaxBody == 20

\* first bytes that are not the PNG signature: of a text file, and of a file
\* shorter than a signature
TextStart == <<"n", "o", "t", " ", "a", " ", "p", "n">>
ShortStart == <<"0x89", "P", "N">>

\* a handler that lets the exception pass
Reraise(exc) == exc

\* "except Exception as e: logger.debug(...)" of _read_png_chunks and of
\* _read_pil_metadata: what is raised further
Swallow(exc) == "none"

\* the reader's frame after a step of a helper that raised exc (or "none")
\* and otherwise goes on at pc: what passes the helper's handler is wrapped
\* in MetadataError by the handler of read_metadata
AfterHelper(r, exc, pc) ==
    IF exc = "none" \/ Swallow(exc) = "none"
    THEN [r EXCEPT !.pc = pc]
    ELSE [r EXCEPT !.pc = "raised", !.err = "MetadataError"]

IdleRead == [pc |-> "idle", start |-> <<>>, size |-> 0, pos |-> 0, err |-> "none"]

\* read_metadata(file_path) lines 54-62: validate_file passes, the object is
\* built (get_pixel_hash returns "" for bytes that do not decode)
PngReadMetadata(start, size) ==
    /\ rd.pc = "idle"
    /\ Len(start) < 8 => size = 0
    /\ rd' = [IdleRead EXCEPT !.pc = "chunks", !.start = start, !.size = size]
    /\ UNCHANGED <<fsVars, metaVars, sideVars, fields, cfg, check, share, thr>>

\* _read_png_chunks, lines 80-110: the signature test, then one turn of the
\* loop per step.  f.read(n) returns the bytes that are left when fewer than
\* n are; fault: f.read(length) cannot allocate its buffer
ReadPngChunksStep(length, type, fault) ==
    /\ rd.pc \in {"chunks", "loop"}
    /\ IF rd.pc = "chunks"
       THEN /\ length = 0 /\ type = "IEND" /\ fault = FALSE
            /\ rd' = IF rd.start # SignatureLiteral
                     THEN AfterHelper(rd, "MetadataError", "pil")
                     ELSE [rd EXCEPT !.pc = "loop"]
       ELSE LET left == rd.size - rd.pos
                Read(n, avail) == IF n < avail THEN n ELSE avail
                data == Read(length, left - 8)
                crc == Read(4, left - 8 - data)
            IN  IF left < 8
                THEN /\ length = 0 /\ type = "IEND" /\ fault = FALSE
                     /\ rd' = [rd EXCEPT !.pc = "pil", !.pos = rd.size]
                ELSE IF fault
                THEN rd' = AfterHelper([rd EXCEPT !.pos = rd.pos + 8],
                                       "MemoryError", "pil")
                ELSE rd' = [rd EXCEPT !.pos = rd.pos + 8 + data + crc,
                                      !.pc = IF type = "IEND" THEN "pil" ELSE "loop"]
    /\ UNCHANGED <<fsVars, metaVars, sideVars, fields, cfg, check, share, thr>>

\* _read_pil_metadata, lines 202-211; fault: Image.open or img.text raises
ReadPilMetadata(fault) ==
    /\ rd.pc = "pil"
    /\ rd.start # PngSignature => fault
    /\ rd' = AfterHelper(rd, IF fault THEN "UnidentifiedImageError" ELSE "none",
                         "return")
    /\ UNCHANGED <<fsVars, metaVars, sideVars, fields, cfg, check, share, thr>>

\* lines 70-71: return metadata
PngReadMetadataReturn ==
    /\ rd.pc = "return"
    /\ rd' = [rd EXCEPT !.pc = "returned"]
    /\ UNCHANGED <<fsVars, metaVars, sideVars, fields, cfg, check, share, thr>>

\* the steps of read_metadata itself
ReadStep ==
    \/ \E length \in {0, 5, 1000}, type \in {"tEXt", "IDAT", "IEND"},
          fault \in BOOLEAN : ReadPngChunksStep(length, type, fault)
    \/ \E fault \in BOOLEAN : ReadPilMetadata(fault)
    \/ PngReadMetadataReturn

\* the caller has the object (or the exception)
PngReadMetadataDone ==
    /\ rd.pc \in {"returned", "raised"}
    /\ rd' = IdleRead
    /\ UNCHANGED <<fsVars, metaVars, sideVars, fields, cfg, check, share, thr>>

NextRead ==
    \/ \E start \in {PngSignature, TextStart, ShortStart}, size \in 0..MaxBody :
           PngReadMetadata(start, size)
    \/ ReadStep
    \/ PngReadMetadataDone

(***************************************************************************)
(* core/config.py: ConfigManager.  Python's dictionaries are objects of a  *)
(* heap: heap[id] is the dictionary id, and a value of a dictionary is a   *)
(* scalar or the id of another dictionary.  "@DEFAULT" is the class        *)
(* attribute DEFAULT_CONFIG and "@config" the instance's _config; a key in *)
(* dot notation is the sequence of its parts.  No configuration file       *)
(* exists.                                                                 *)
(***************************************************************************)
\* DEFAULT_CONFIG as the class statement builds it (two sections of it)
DefaultConfig ==
    [x \in {"@DEFAULT", "@backup", "@logging"} |->
        CASE x = "@DEFAULT" -> [backup |-> "@backup", logging |-> "@logging"]
          [] x = "@backup" -> [enabled |-> "True", keep_count |-> "5"]
          [] x = "@logging" -> [level |-> "INFO"]]

\* dict.copy(): a new dictionary with the keys and the values, ids included,
\* of the dictionary id
DictCopy(heap, id) == heap[id]

\* the heap after "self._config = self.DEFAULT_CONFIG.copy()"
AssignConfigCopy(heap) ==
    [x \in DOMAIN heap \cup {"@config"} |->
        IF x = "@config" THEN DictCopy(heap, "@DEFAULT") ELSE heap[x]]

\* lines 117-122 of get: the walk "for k in keys: value = value[k]" from the
\* value it has reached, None on KeyError or TypeError
RECURSIVE ConfigWalk(_, _, _)
ConfigWalk(heap, value, keys) ==
    IF keys = <<>> THEN value
    ELSE IF value \in DOMAIN heap /\ Head(keys) \in DOMAIN heap[value]
    THEN ConfigWalk(heap, heap[value][Head(keys)], Tail(keys))
    ELSE NoneVal

\* ConfigManager.get(key)
ConfigGet(heap, key) == ConfigWalk(heap, "@config", key)

\* lines 136-142 of set, from the dictionary id: missing parents are made,
\* "config = config[k]" steps into the parent, and the last part is assigned
RECURSIVE ConfigSetIn(_, _, _, _)
ConfigSetIn(heap, id, keys, value) ==
    IF Len(keys) = 1
    THEN [heap EXCEPT ![id] = BlockSetKey(heap[id], keys[1], value)]
    ELSE LET k == Head(keys)
         IN  IF k \notin DOMAIN heap[id]
             THEN LET made == "@" \o k
                      h == [x \in DOMAIN heap \cup {made} |->
                              IF x = made THEN EmptyBlock
                              ELSE IF x = id THEN BlockSetKey(heap[id], k, made)
                              ELSE heap[x]]
                  IN  ConfigSetIn(h, made, Tail(keys), value)
             ELSE ConfigSetIn(heap, heap[id][k], Tail(keys), value)

\* the keys and the values the model's callers use
ConfigKeys ==
    {<<"backup", "enabled">>, <<"logging", "level">>,
     <<"custom", "new_setting">>, <<"theme">>}
ConfigValues == {"False", "DEBUG"}

\* a caller calls set(key, value)
ConfigSet(key, value) ==
    /\ cfg' = [heap |-> ConfigSetIn(cfg.heap, "@config", key, value), op |-> "set"]
    /\ UNCHANGED <<fsVars, metaVars, sideVars, fields, check, share, rd, thr>>

\* a caller calls reset_to_defaults()
ConfigResetToDefaults ==
    /\ cfg' = [cfg EXCEPT !.heap = AssignConfigCopy(cfg.heap), !.op = "reset"]
    /\ UNCHANGED <<fsVars, metaVars, sideVars, fields, check, share, rd, thr>>

NextConfig ==
    \/ \E key \in ConfigKeys, value \in ConfigValues : ConfigSet(key, value)
    \/ ConfigResetToDefaults

(***************************************************************************)
(* Initial states and specifications.                                      *)
(***************************************************************************)
\* the directory holds the image F, with metadata; nothing else
InitFs ==
    /\ fs = [p \in Paths |-> IF p = F THEN Img(0, 1) ELSE Absent]
    /\ tempDir = FALSE
    /\ tempOther = FALSE
    /\ now = 0
    /\ ops = 0
    /\ scope = IdleScope
    /\ eng = IdleEng

\* a fresh ImageMetadata object: four empty blocks
InitObject ==
    /\ meta = EmptyMeta
    /\ call = NoCall

\* ConfigManager.__init__, and what the later sections start from
InitMore ==
    /\ fields = NewFields
    /\ cfg = [heap |-> AssignConfigCopy(DefaultConfig), op |-> "init"]
    /\ check = NoCheck
    /\ share = NoShare
    /\ rd = IdleRead
    /\ thr = [i \in Threads |-> IdleScope]

\* MetadataEngine.__init__ has registered the built-in adapters; no batch
\* runs; the images were written at second 0 and no backup has been made;
\* there is no PNG file yet
InitExt ==
    /\ adapters = BuiltInAdapters
    /\ lookup = NoLookup
    /\ batch = IdleBatch
    /\ mtime = [p \in TimedPaths |-> 0]
    /\ nestedDir = FALSE
    /\ bcall = NoBackupCall
    /\ clean = IdleCleanup
    /\ png = IdlePng
    /\ InitMore

InitMeta == InitFs /\ InitObject /\ InitExt /\ fmt = "JPEG"
InitSafe == InitFs /\ InitObject /\ InitExt /\ fmt = "JPEG"
InitEngine == InitFs /\ InitObject /\ InitExt /\ fmt \in Formats
\* nothing runs: the state the engine, the batch, the backup and the PNG
\* specifications start from
InitIdle == InitFs /\ InitObject /\ InitExt /\ fmt = "JPEG"

SpecMeta == InitMeta /\ [][NextMeta]_vars
SpecSafe == InitSafe /\ [][NextSafe]_vars
SpecEngine == InitEngine /\ [][NextEngine]_vars
SpecAdapter == InitIdle /\ [][NextAdapter]_vars
SpecBatch == InitIdle /\ [][NextBatch]_vars
SpecBackup == InitIdle /\ [][NextBackup]_vars
SpecPng == InitIdle /\ [][NextPng]_vars
SpecConfig == InitIdle /\ [][NextConfig]_vars
SpecShare == InitIdle /\ [][NextShare]_vars
SpecCheck == InitIdle /\ [][NextCheck]_vars
\* the directory holds the images F and G
InitThreads ==
    /\ fs = [p \in Paths |-> IF p \in {F, G} THEN Img(0, 1) ELSE Absent]
    /\ tempDir = FALSE /\ tempOther = FALSE /\ now = 0 /\ ops = 0
    /\ scope = IdleScope /\ eng = IdleEng /\ fmt = "JPEG"
    /\ InitObject /\ InitExt

SpecThreads == InitThreads /\ [][NextThreads]_vars
SpecRead == InitIdle /\ [][NextRead]_vars
\* a call that has started goes on running
SpecReadFair == SpecRead /\ WF_vars(ReadStep)

(***************************************************************************)
(* The claims.                                                             *)
(***************************************************************************)

\* C1 (SpecSafe): when the body of a scope on an existing file raises after
\* modifying the temp file, then once the scope has exited the file exists and
\* holds the bytes it held on entry, with or without create_backup.
C1_RollbackOnBodyException ==
    (scope.pc = "done" /\ scope.owner = "caller" /\ scope.bodyRaised /\ scope.wrote
        /\ scope.pre # Absent)
    => (Exists(fs, scope.file_path) /\ fs[scope.file_path] = scope.pre)

\* a scope with a backup has exited on its body's exception, the body having
\* left other bytes in the temp file
C1_Witness ==
    /\ scope.pc = "done" /\ scope.owner = "caller" /\ scope.bodyRaised /\ scope.wrote
    /\ scope.pre # Absent /\ scope.create_backup /\ scope.backup_path # NoPath
    /\ scope.left # scope.pre /\ scope.left # Absent

\* C2 (SpecEngine): after strip_metadata with create_backup=False the backup
\* files are those that existed before the call.
C2_NoBackupWhenDisabled ==
    (eng.pc = "done" /\ eng.op = "strip" /\ ~eng.create_backup)
    => BackupFiles(fs) = eng.backupsBefore

\* C3 (SpecEngine): strip_metadata reports success only if the pixel data at
\* the output path passes the format's pixel check against the input.
C3_StripSucceedsOnlyIfPixelsPass ==
    (eng.pc = "done" /\ eng.op = "strip" /\ eng.err = "none")
    => AdapterPixelCheck(fmt, eng.preFile, fs[eng.out])

\* C4 (SpecEngine): when an adapter's write_metadata or strip_metadata fails,
\* the file at the target path holds its pre-operation bytes.
C4_FailureLeavesTargetIntact ==
    (eng.pc = "done" /\ eng.adapterCalled /\ eng.err # "none")
    => fs[eng.out] = eng.preOut

\* C5 (SpecEngine): when the post-write pixel check fails, the error that
\* reaches the caller is PixelDataCorruptionError.
C5_PixelFailureRaisesCorruptionError ==
    (eng.pc = "done" /\ eng.checkFailed) => eng.err = "PixelDataCorruptionError"

\* C6 (SpecEngine): in an in-place write or strip with create_backup=True, from
\* the moment the adapter is called (so before its first write) until the
\* operation has ended, in success or failure, the engine's backup exists and
\* holds the file's pre-operation bytes.
C6_BackupBeforeAdapterAndAfter ==
    (/\ eng.out = eng.file /\ eng.create_backup
     /\ \/ eng.pc \in {"adapter", "save", "verify", "exit"}
        \/ eng.pc = "done" /\ eng.adapterCalled)
    => (Exists(fs, eng.backup) /\ fs[eng.backup] = eng.preFile)

\* an in-place operation with a backup has ended and has changed the file
C6_Witness ==
    /\ eng.pc = "done" /\ eng.adapterCalled
    /\ eng.out = eng.file /\ eng.create_backup
    /\ fs[eng.file] # eng.preFile

\* C7 (SpecSafe): once a scope has exited, on any path, its temp file does not
\* exist, and .temp does not exist unless it holds another entry.
C7_TempCleanedOnEveryExit ==
    scope.pc = "done"
    => /\ scope.temp_path # NoPath => ~Exists(fs, scope.temp_path)
       /\ tempDir => ~TempDirEmpty(fs, tempOther)

\* a scope has exited after its move failed: the temp file was still there
\* for the finally clause to delete, and .temp is gone
C7_Witness ==
    /\ scope.pc = "done" /\ scope.exc = "OSError"
    /\ scope.temp_path # NoPath /\ scope.left # Absent
    /\ ~tempDir

\* C8 (SpecSafe): no step of a scope changes a file of the directory but the
\* step that, after the body has returned, replaces the scope's target by
\* what the body left in the temp file; that step happens once in a scope.
C8_TargetReplacedOnceAtCommit ==
    [][\A p \in {F, G} :
          fs'[p] # fs[p]
          => /\ p = scope.file_path
             /\ scope.pc = "commit" /\ scope'.pc = "finally"
             /\ ~scope.bodyRaised
             /\ fs'[p] = scope.left]_vars

\* the target has just been replaced by what the body wrote
C8_Witness ==
    /\ scope.pc = "finally" /\ scope.owner = "caller" /\ scope.exc = "none"
    /\ scope.wrote /\ scope.pre # Absent
    /\ scope.left # scope.pre /\ fs[scope.file_path] = scope.left

\* keys of an object matching the patterns strip_gps_data removes
GpsKeysOf(m) ==
    {<<b, k>> \in BlockSet \X KeyPool :
        k \in DOMAIN m[b] /\ MatchesAny(k, StripGpsPatterns)}

\* C9 (SpecMeta): right after strip_gps_data() returns, has_gps_data() on the
\* object is False.
C9_NoGpsAfterStrip ==
    call.op = "strip_gps_data" => ~HasGpsData(meta)

\* C10 (SpecMeta): strip_gps_data() returns the number of keys, over the four
\* blocks, that matched gps, location, geotag or coordinate before the call.
C10_CountEqualsMatchingKeys ==
    call.op = "strip_gps_data" => call.retInt = Cardinality(GpsKeysOf(call.before))

\* C11 (SpecMeta): MetadataBlock.remove(key) returns True exactly when the key
\* was in the block before the call, whatever value it held, and the key is
\* not in the block after the call.
C11_RemoveReturnsPresence ==
    [][\A b \in BlockSet, k \in KeyPool :
          MetaRemove(b, k)
          => /\ call'.retBool <=> (k \in DOMAIN meta[b])
             /\ k \notin DOMAIN meta'[b]]_vars

\* C12 (SpecMeta): after strip_all_metadata() has been called twice in a row,
\* the four blocks are empty and the second call has returned 0.
C12_SecondStripAllReturnsZero ==
    (call.op = "strip_all_metadata" /\ call.prior >= 0)
    => (call.retInt = 0 /\ \A b \in BlockSet : DOMAIN meta[b] = {})

\* the second of two calls in a row has returned, the first having removed keys
C12_Witness ==
    call.op = "strip_all_metadata" /\ call.prior > 0 /\ call.before = EmptyMeta

\* C13 (SpecMeta): from_dict(m.to_dict()) has in each of the four blocks the
\* keys of m, each with the value it has in m.
C13_FromDictToDictKeepsBlocks ==
    call.op = "from_dict"
    => \A b \in BlockSet :
          /\ DOMAIN meta[b] = DOMAIN call.before[b]
          /\ \A k \in DOMAIN meta[b] : meta[b][k] = call.before[b][k]

\* an object with keys in two blocks, one of them holding None, was rebuilt
C13_Witness ==
    /\ call.op = "from_dict"
    /\ \E b1, b2 \in BlockSet :
          /\ b1 # b2 /\ DOMAIN call.before[b1] # {} /\ DOMAIN call.before[b2] # {}
          /\ \E k \in DOMAIN call.before[b1] : call.before[b1][k] = NoneVal

C15_MissingFileRaisesFileError ==
    (lookup.called /\ ~lookup.exists) => lookup.ret = Raised("FileError")

\* get_adapter was asked about a missing path with an unsupported extension
C15_Witness ==
    /\ lookup.called /\ ~lookup.exists
    /\ AdapterByExtension(adapters, lookup.suffix).err = "UnsupportedFormatError"
    /\ lookup.ret.err = "FileError"

\* C16 (SpecBatch): when batch_process or process_files has returned, the
\* result map has an entry for every input path and for nothing else; the
\* entry of a file whose operation raises is the exception, and the entry of
\* every other file is its own result.
C16_BatchKeepsEveryEntry ==
    batch.pc = "returned"
    => LET inputs == {batch.inputs[j] : j \in 1..Len(batch.inputs)}
       IN  /\ DOMAIN batch.results = inputs
           /\ \A file \in inputs :
                 IF file \in MissingFiles \/ batch.operation = "rotate"
                 THEN batch.results[file].kind = "Exception"
                 ELSE batch.results[file] = PathResult(file)

\* a pool of two workers has returned the map of a batch whose first file
\* failed and whose later files succeeded
C16_Witness ==
    /\ batch.pc = "returned" /\ batch.workers = 2 /\ batch.status # <<>>
    /\ Len(batch.inputs) >= 3
    /\ batch.inputs[1] \in MissingFiles
    /\ batch.results[batch.inputs[1]].kind = "Exception"
    /\ batch.results[batch.inputs[2]].kind = "Path"
    /\ batch.results[batch.inputs[3]].kind = "Path"

\* C17 (SpecBackup): create_backup raises BackupError when the source file
\* does not exist, when the destination cannot be created, and when the
\* parent directories of a caller-supplied destination do not exist; in
\* these cases no backup file is left at the destination.
C17_BackupFailureIsBackupError ==
    (/\ bcall.called
     /\ \/ ~bcall.sourceExisted
        \/ bcall.fault
        \/ ~bcall.parentExisted)
    => (bcall.err = "BackupError" /\ fs[bcall.dest] = bcall.destBefore)

\* C18 (SpecBackup): when cleanup_backups(path, keep_count) has returned and
\* nobody else touched the n backups it listed, min(n, keep_count) of them
\* are left, none of them older than a deleted one, the count returned is
\* max(0, n - keep_count), and the original file is as it was.
C18_CleanupKeepsNewest ==
    (clean.pc = "returned" /\ ~clean.interfered)
    => LET n == Cardinality(clean.backup_files)
           left == GlobBackups(fs, clean.file)
           gone == clean.backup_files \ left
       IN  /\ left \subseteq clean.backup_files
           /\ Cardinality(left) = IF n < clean.keep_count THEN n ELSE clean.keep_count
           /\ \A a \in left, d \in gone : clean.times[a] >= clean.times[d]
           /\ clean.ret = IF n > clean.keep_count THEN n - clean.keep_count ELSE 0
           /\ fs[clean.file] = clean.preFile /\ Exists(fs, clean.file)

\* of two backups with different modification times the older was deleted
C18_Witness ==
    /\ clean.pc = "returned" /\ ~clean.interfered
    /\ clean.keep_count = 1 /\ clean.ret = 1
    /\ \E a, d \in clean.backup_files :
          /\ clean.times[a] > clean.times[d]
          /\ Exists(fs, a) /\ ~Exists(fs, d)

\* C19 (SpecBackup): cleanup_backups does not raise when a backup it has
\* listed is removed by another actor before it is stat'ed or unlinked.
C19_CleanupSurvivesMissingBackup ==
    clean.pc # "raised"

\* C20 (SpecPng): after a PNG file's metadata was exported, the file
\* stripped and the metadata restored from the export, the keys of the
\* custom block read from the file are the keys of the custom block that
\* were exported.
C20_RestoredKeysEqualExported ==
    png.pc = "read" => png.restored = png.exported

\* the mean of the squared differences of the 8-bit samples, in the integers
TrueMse(orig, mod) == (orig.px - mod.px) * (orig.px - mod.px)

C22_ResetRestoresDefaults ==
    cfg.op = "reset"
    => \A key \in ConfigKeys :
          ConfigGet(cfg.heap, key) = ConfigGet(AssignConfigCopy(DefaultConfig), key)

\* C23 (SpecMeta): strip_gps_data() leaves every key of every block whose
\* lower-case form contains none of gps, location, geotag, coordinate in its
\* block with its value, and leaves the fields that are no blocks as they are.
C23_StripGpsKeepsOtherKeys ==
    [][MetaStripGpsData
       => /\ fields' = fields
          /\ \A b \in BlockSet : \A k \in DOMAIN meta[b] :
                ~MatchesAny(k, StripGpsPatterns)
                => (k \in DOMAIN meta'[b] /\ meta'[b][k] = meta[b][k])]_vars

\* strip_gps_data() has removed a key of an object that has its file
\* information, and a key that matches no pattern is still there
C23_Witness ==
    /\ call.op = "strip_gps_data" /\ call.retInt > 0
    /\ fields.file_size # NoneVal
    /\ \E b \in BlockSet : \E k \in DOMAIN meta[b] :
          k \in DOMAIN call.before[b] /\ ~MatchesAny(k, StripGpsPatterns)

\* C24 (SpecCheck): verify_pixel_integrity(original, modified) returns True
\* exactly when both files decode and have the same pixel data; when either
\* cannot be hashed it returns False, also when neither can.
C24_PixelCheckNeedsTwoHashes ==
    check.fn = "verify_pixel_integrity"
    => /\ check.ret <=> (/\ check.orig.kind = "img" /\ check.mod.kind = "img"
                         /\ check.orig.px = check.mod.px)
       /\ (GetPixelHash(check.orig) = EmptyHash \/ GetPixelHash(check.mod) = EmptyHash)
          => ~check.ret

\* the check was asked about two files that cannot be decoded, whose hashes
\* are the same empty string
C24_Witness ==
    /\ check.fn = "verify_pixel_integrity"
    /\ check.orig = Junk /\ check.mod = Junk
    /\ GetPixelHash(check.orig) = GetPixelHash(check.mod)
    /\ ~check.ret

C26_ConcurrentScopesIndependent ==
    \A i \in Threads :
        (thr[i].pc = "done" /\ ~thr[i].bodyRaised)
        => (thr[i].exc = "none" /\ fs[thr[i].file_path] = thr[i].left)

\* C27 (SpecSafe): no step of a later create_backup or safe_file_operation
\* changes or removes a backup file that exists.
C27_BackupNeverOverwritten ==
    [][\A p \in BackupPaths : Exists(fs, p) => fs'[p] = fs[p]]_vars

\* C28 (SpecShare): setting or removing a key in a block of m or of
\* from_dict(m.to_dict()) changes neither what the other object's blocks
\* hold nor what a dictionary that to_dict returned holds.
C28_NoSharedState ==
    [][/\ share'.op = "m"
          => /\ Held(share'.heap, share'.m2) = Held(share.heap, share.m2)
             /\ Held(share'.heap, share'.d.metadata) = Held(share.heap, share.d.metadata)
       /\ share'.op = "m2"
          => /\ Held(share'.heap, share'.m) = Held(share.heap, share.m)
             /\ Held(share'.heap, share'.d.metadata) = Held(share.heap, share.d.metadata)
      ]_vars

\* C29 (SpecPng): after MetadataEngine.strip_gps_data(file), every key that
\* read_metadata gave for the file and that matches no GPS pattern is a key
\* read_metadata gives for the output file.
C29_StripGpsKeepsNonGpsKeys ==
    png.pc = "gps_stripped"
        => \A k \in png.exported :
              ~MatchesAny(k, StripGpsPatterns) => k \in ReadCustomKeys(png.file)

\* C30 (SpecEngine): while write_metadata or strip_metadata (and so
\* strip_gps_data, which ends in write_metadata) runs with an output path
\* other than the source path, no step changes the source file's bytes.
C30_SourceUntouched ==
    [][(eng.pc # "idle" /\ eng.out # eng.file) => fs'[eng.file] = fs[eng.file]]_vars

\* a call with the output path G has written G and returned without error
C30_Witness ==
    /\ eng.pc = "done" /\ eng.err = "none"
    /\ eng.file = F /\ eng.out = G
    /\ fs[G].kind = "img" /\ fs[G] # eng.preOut
    /\ fs[F] = eng.preFile

====
